---- MODULE Spec2Model ----
(***************************************************************************)
(* sentence-base-api: the sentence mining store (words, sentences, mining  *)
(* batches), the request handlers that read and write it, and the token    *)
(* service.  Every handler is a sequence of store statements run on a      *)
(* pooled connection without an enclosing transaction, so each statement   *)
(* is one atomic step and the statements of concurrent requests            *)
(* interleave.                                                             *)
(***************************************************************************)
EXTENDS Integers, Sequences, FiniteSets, TLC

VARIABLES
    words,            \* table words: sequence of rows, id = index (rows are never deleted)
    sentences,        \* table sentences: set of rows
    sentence_seq,     \* serial of sentences.id: the last id handed out
    mining_batches,   \* table mining_batches: sequence of rows, id = index
    pc,               \* per request slot: the statement the handler runs next
    req,              \* per request slot: the request being served
    local,            \* per request slot: the handler's local variables
    result,           \* per request slot: the outcome returned to the caller
    faults,           \* number of store statements that have failed so far
    committed,        \* history: <<user, id set>> of every commit that returned Ok
    upserts,          \* history: per word key, the upsert calls that returned Ok
    limits,           \* the scenario: request slots, the cap as the environment sets it,
                      \* and the bounds of the exploration (fixed through a behaviour)
    users,            \* table users: per id, the row (only token_generation is kept)
    now,              \* the system clock, in ticks
    tokens,           \* the tokens that have been issued
    verdict,          \* the last authentication request: its header, its call of
                      \* validate_token and what it returned, the guard's outcome
                      \* and the response
    handles           \* the User values held by callers: rows of users as loaded

vars == <<words, sentences, sentence_seq, mining_batches, pc, req, local, result,
          faults, committed, upserts, limits, users, now, tokens, verdict, handles>>

store == <<words, sentences, sentence_seq, mining_batches>>

\* What the sentence handlers read and never write.
auth == <<users, now, tokens, verdict, handles>>

\* The state of the sentence handlers: what the token service never touches.
mining == <<store, pc, req, local, result, faults, committed, upserts>>

----------------------------------------------------------------------------
(* Bounds *)

MaxSentences == 2    \* sentence rows ever inserted, requests in flight at once
MaxBatches == 2      \* mining batch rows ever inserted
MaxIds == 2          \* length of the id list given to commit
MaxFaults == 1       \* store statements that fail
SeqMaxSentences == 3     \* sentence rows ever inserted, requests one after another
AdmitMaxSentences == 4   \* sentence rows ever inserted, admits and deletes only
MaxTime == 3         \* the last tick of the clock
MaxTokens == 4       \* tokens ever issued
MaxGeneration == 2   \* increments of one user's token_generation
MaxClaimTime == 1    \* the latest iat and exp of a token a client signs itself
MaxSpaces == 2       \* whitespace characters after the scheme of a header

\* get_maximum_pending_sentences(): MAXIMUM_PENDING_SENTENCES as the environment sets it.
MaxPending == 2

Procs == {1, 2}      \* request slots: the requests in flight at once
Users == {1, 2}      \* users.id of the registered users
Handles == {1, 2}    \* the User values held at once
DictionaryForms == {"neko"}
AllReadings == {"ne", "ko"}
Texts == limits.texts

Readings == limits.readings
SentenceIds == 1..limits.sentences   \* ids a request may name (unallocated ones are non-existent)

\* The key of table words: (user_id, dictionary_form, reading).
WordKeys == Users \X DictionaryForms \X AllReadings

None == 0

Range(seq) == {seq[i] : i \in DOMAIN seq}

IdLists == UNION {[1..n -> SentenceIds] : n \in 1..MaxIds}

----------------------------------------------------------------------------
(* Rows *)

NoUser == [id |-> None, token_generation |-> 0]

NoClaims == [iat |-> 0, exp |-> 0, sub |-> None, gen |-> 0, typ |-> "none"]

NoToken == [claims |-> NoClaims, mac |-> [claims |-> NoClaims, key |-> ""]]

\* The strings the tokenizer is given: the sentence of a request, and the
\* surface and the dictionary form slots of its nodes.
TaggerInputs == {"s", "a", "d", "*"}

NoTagger == [input \in TaggerInputs |-> <<>>]

\* An Authorization header value: the scheme word, the whitespace after it
\* and the rest.  NoHeader is the empty value of a request without the header.
NoHeader == [scheme |-> "", spaces |-> 0, credentials |-> NoToken]

NoGuard == [success |-> FALSE, status |-> 0, error |-> "None", user |-> NoUser]

NoResponse == [status |-> "none", message |-> "", http_status |-> 0]

NoVerdict == [header |-> NoHeader, token |-> NoToken, token_type |-> "none", at |-> 0,
              outcome |-> [error |-> "None", user |-> NoUser],
              guard |-> NoGuard, response |-> NoResponse]

\* The environment variables of the signing secret and of the expiry times
\* as the deployment sets them: a variable is not set (<<>>) or set to a
\* string (<<string>>).
TestEnv ==
    [JWT_SECRET |-> <<"secret">>,
     JWT_ACCESS_TOKEN_EXPIRY_TIME |-> <<"2">>, JWT_REFRESH_TOKEN_EXPIRY_TIME |-> <<"3">>]

\* The scenarios.  slots: the request slots in use; max_pending: the value of
\* MAXIMUM_PENDING_SENTENCES; sentences, readings: the bounds on the requests;
\* forged: whether the authentication requests carry the tokens that were
\* handed out, or a header of the client's own making (its credentials are
\* also the refresh token the client sends) and may find the connection pool
\* exhausted; tagger: what the tokenizer makes of each string it is given;
\* texts: the sentence texts of the requests; env: the environment variables.
ConcurrentLimits ==
    [slots |-> Procs, max_pending |-> MaxPending, sentences |-> MaxSentences,
     readings |-> {"ne"}, forged |-> FALSE, header |-> NoHeader,
     tagger |-> NoTagger, texts |-> {"t"}, env |-> TestEnv]

SequentialLimits ==
    [slots |-> {1}, max_pending |-> MaxPending, sentences |-> SeqMaxSentences,
     readings |-> AllReadings, forged |-> FALSE, header |-> NoHeader,
     tagger |-> NoTagger, texts |-> {"t"}, env |-> TestEnv]

AdmitLimits ==
    {[slots |-> slots, max_pending |-> max_pending, sentences |-> AdmitMaxSentences,
      readings |-> {"ne"}, forged |-> FALSE, header |-> NoHeader,
      tagger |-> NoTagger, texts |-> {"t"}, env |-> TestEnv] :
        slots \in {{1}, Procs}, max_pending \in 1..MaxPending}

NoWord == [id |-> None, user_id |-> None, dictionary_form |-> "", reading |-> "",
           frequency |-> 0, is_mined |-> FALSE]

NoSentence == [id |-> None, user_id |-> None, word_id |-> None, sentence |-> "",
               is_pending |-> FALSE, mining_batch_id |-> None]

NoRequest == [op |-> "none", user |-> None, dictionary_form |-> "", reading |-> "",
              sentence |-> "", sentence_id |-> None, sentence_ids |-> <<>>,
              mining_batch_id |-> None, given |-> ""]

NoLocal == [found_word |-> NoWord, word_entry |-> NoWord, sentence_entry |-> NoSentence,
            pending_sentence |-> NoSentence, rows |-> {}, mining_batch |-> None,
            entries |-> <<>>, batches |-> <<>>, morphemes |-> <<>>]

\* INSERT INTO words (user_id, dictionary_form, reading): frequency and is_mined
\* take the column defaults 1 and false.
NewWord(id, user, dictionary_form, reading) ==
    [id |-> id, user_id |-> user, dictionary_form |-> dictionary_form,
     reading |-> reading, frequency |-> 1, is_mined |-> FALSE]

\* Mutant of NewSentence: the row is inserted as not pending.
NewSentence_NotPending(id, user, word, sentence) ==
    [id |-> id, user_id |-> user, word_id |-> word.id, sentence |-> sentence,
     is_pending |-> FALSE, mining_batch_id |-> None]

\* INSERT INTO sentences (user_id, word_id, sentence): is_pending takes the
\* column default true and mining_batch_id is NULL.
NewSentence(id, user, word, sentence) ==
    [id |-> id, user_id |-> user, word_id |-> word.id, sentence |-> sentence,
     is_pending |-> TRUE, mining_batch_id |-> None]

NewMining(id, user) == [id |-> id, user_id |-> user]

WordRows == {words[i] : i \in DOMAIN words}

----------------------------------------------------------------------------
(* Request slots *)

InFlight(op) == Cardinality({p \in Procs : pc[p] \notin {"idle", "done"} /\ req[p].op = op})

Finish(p, outcome) ==
    /\ pc' = [pc EXCEPT ![p] = "done"]
    /\ result' = [result EXCEPT ![p] = outcome]
    /\ UNCHANGED <<limits, auth>>

Goto(p, label) ==
    /\ pc' = [pc EXCEPT ![p] = label]
    /\ UNCHANGED <<result, limits, auth>>

\* The response has been sent: the slot is free for the next request.
Return(p) ==
    /\ pc[p] = "done"
    /\ pc' = [pc EXCEPT ![p] = "idle"]
    /\ req' = [req EXCEPT ![p] = NoRequest]
    /\ local' = [local EXCEPT ![p] = NoLocal]
    /\ result' = [result EXCEPT ![p] = "none"]
    /\ UNCHANGED <<store, faults, committed, upserts, limits, auth>>

----------------------------------------------------------------------------
(* The frequency list and the view of a sentence *)

\* frequency_lists/jp.json as parsed: an array of [dictionary form, reading].
FrequencyListJson == << <<"inu", "inu">>, <<"neko", "ne">> >>

\* JpFrequencyList::new: the word at (0-based) index i is inserted with value
\* i, so that of the occurrences of one word the last one stays.
frequency_hash_map ==
    [k \in Range(FrequencyListJson) |->
        CHOOSE i \in 0..(Len(FrequencyListJson) - 1) :
           /\ FrequencyListJson[i + 1] = k
           /\ \A j \in (i + 1)..(Len(FrequencyListJson) - 1) : FrequencyListJson[j + 1] # k]

lowest_frequency == Cardinality(DOMAIN frequency_hash_map) + 1

get_frequency(word, reading) ==
    IF <<word, reading>> \in DOMAIN frequency_hash_map
       THEN frequency_hash_map[<<word, reading>>]
       ELSE lowest_frequency

\* UserSentenceEntry::new.
UserSentenceEntry(word, sentence) ==
    [sentence_id |-> sentence.id, sentence |-> sentence.sentence,
     dictionary_form |-> word.dictionary_form, reading |-> word.reading,
     mining_frequency |-> word.frequency,
     dictionary_frequency |-> get_frequency(word.dictionary_form, word.reading)]

----------------------------------------------------------------------------
(* POST /sentences *)

\* Mutant of PendingCount: committed sentences are counted too.
PendingCount_AnyState(user) == Cardinality({s \in sentences : s.user_id = user})

PendingCount(user) == Cardinality({s \in sentences : s.user_id = user /\ s.is_pending})

\* Mutant of is_pending_sentence_limit_reached: the limit is never reached.
is_pending_sentence_limit_reached_Never(user) == FALSE

is_pending_sentence_limit_reached(user) == PendingCount(user) >= limits.max_pending

\* The word key a request names.
RequestKey(p) == <<req[p].user, req[p].dictionary_form, req[p].reading>>

\* str::trim on the strings of the requests: the string without its leading
\* and trailing whitespace.
trim(string) ==
    CASE string = " t " -> "t"
      [] string = " " -> ""
      [] OTHER -> string

\* The user and the three fields of the request as routes::sentences::new
\* binds them, trimmed; given is the sentence field as it was sent.
NewSentenceRequest(user, dictionary_form, reading, sentence) ==
    [NoRequest EXCEPT !.op = "new", !.user = user,
                      !.dictionary_form = trim(dictionary_form),
                      !.reading = trim(reading), !.sentence = trim(sentence),
                      !.given = sentence]

\* validate on a NewSentenceRequest: #[validate(length(min = 1))] on each of
\* the three fields as they were sent.
validate(dictionary_form, reading, sentence) ==
    dictionary_form # "" /\ reading # "" /\ sentence # ""

\* Mutant of New: the word is counted before the limit is checked.
New_UpsertBeforeCheck(p) ==
    /\ pc[p] = "idle"
    /\ p \in limits.slots
    /\ \E user \in Users, dictionary_form \in DictionaryForms, reading \in Readings,
          sentence \in Texts :
          /\ req' = [req EXCEPT ![p] =
                        NewSentenceRequest(user, dictionary_form, reading, sentence)]
          /\ IF ~validate(dictionary_form, reading, sentence)
                THEN Finish(p, "ValidationError") /\ UNCHANGED words
             ELSE IF is_pending_sentence_limit_reached(user)
                THEN /\ Finish(p, "PendingLimitReached")
                     /\ words' = [i \in DOMAIN words |->
                                     IF /\ words[i].user_id = user
                                        /\ words[i].dictionary_form = trim(dictionary_form)
                                        /\ words[i].reading = trim(reading)
                                        THEN [words[i] EXCEPT !.frequency = @ + 1,
                                                              !.is_mined = FALSE]
                                        ELSE words[i]]
                ELSE /\ sentence_seq + InFlight("new") < limits.sentences
                     /\ Goto(p, "word_find")
                     /\ UNCHANGED words
    /\ UNCHANGED <<sentences, sentence_seq, mining_batches, local, faults, committed, upserts>>

\* routes::sentences::new up to the limit check.
New(p) ==
    /\ pc[p] = "idle"
    /\ p \in limits.slots
    /\ \E user \in Users, dictionary_form \in DictionaryForms, reading \in Readings,
          sentence \in Texts :
          /\ req' = [req EXCEPT ![p] =
                        NewSentenceRequest(user, dictionary_form, reading, sentence)]
          /\ IF ~validate(dictionary_form, reading, sentence)
                THEN Finish(p, "ValidationError")
             ELSE IF is_pending_sentence_limit_reached(user)
                THEN Finish(p, "PendingLimitReached")
                ELSE /\ sentence_seq + InFlight("new") < limits.sentences
                     /\ Goto(p, "word_find")
    /\ UNCHANGED <<store, local, faults, committed, upserts>>

\* The count query of the limit check fails.
NewCountError(p) ==
    /\ pc[p] = "idle"
    /\ p \in limits.slots
    /\ faults < MaxFaults
    /\ \E user \in Users, dictionary_form \in DictionaryForms, reading \in Readings,
          sentence \in Texts :
          /\ validate(dictionary_form, reading, sentence)
          /\ req' = [req EXCEPT ![p] =
                        NewSentenceRequest(user, dictionary_form, reading, sentence)]
    /\ Finish(p, "DatabaseError")
    /\ faults' = faults + 1
    /\ UNCHANGED <<store, local, committed, upserts>>

\* Mutant of FindWord: the lookup is not restricted to the user's words.
FindWord_AnyOwner(user, dictionary_form, reading) ==
    {w \in WordRows : /\ w.dictionary_form = dictionary_form
                      /\ w.reading = reading}

FindWord(user, dictionary_form, reading) ==
    {w \in WordRows : /\ w.user_id = user
                      /\ w.dictionary_form = dictionary_form
                      /\ w.reading = reading}

\* Word::new_or_increase_frequency, the lookup.
WordFind(p) ==
    /\ pc[p] = "word_find"
    /\ LET found == FindWord(req[p].user, req[p].dictionary_form, req[p].reading) IN
          IF found # {}
             THEN /\ \E w \in found : local' = [local EXCEPT ![p].found_word = w]
                  /\ Goto(p, "word_save")
             ELSE /\ UNCHANGED local
                  /\ Goto(p, "word_insert")
    /\ UNCHANGED <<store, req, faults, committed, upserts>>

\* The lookup fails: Err(_) takes the insert arm whatever the error is.
WordFindError(p) ==
    /\ pc[p] = "word_find"
    /\ faults < MaxFaults
    /\ faults' = faults + 1
    /\ Goto(p, "word_insert")
    /\ UNCHANGED <<store, req, local, committed, upserts>>

\* Mutant of WordSave: the row is saved with the frequency it was found with.
WordSave_NoIncrement(p) ==
    /\ pc[p] = "word_save"
    /\ LET saved == [local[p].found_word EXCEPT !.is_mined = FALSE] IN
          /\ words' = [words EXCEPT ![saved.id] = saved]
          /\ local' = [local EXCEPT ![p].word_entry = saved]
    /\ upserts' = [upserts EXCEPT ![RequestKey(p)] = @ + 1]
    /\ Goto(p, "sentence_new")
    /\ UNCHANGED <<sentences, sentence_seq, mining_batches, req, faults, committed>>

\* Mutant of WordSave: the row is saved with the is_mined it was found with.
WordSave_KeepMined(p) ==
    /\ pc[p] = "word_save"
    /\ LET saved == [local[p].found_word EXCEPT !.frequency = @ + 1] IN
          /\ words' = [words EXCEPT ![saved.id] = saved]
          /\ local' = [local EXCEPT ![p].word_entry = saved]
    /\ upserts' = [upserts EXCEPT ![RequestKey(p)] = @ + 1]
    /\ Goto(p, "sentence_new")
    /\ UNCHANGED <<sentences, sentence_seq, mining_batches, req, faults, committed>>

\* Ok(found_word): frequency += 1, is_mined = false, save_changes writes the
\* whole row as the handler holds it.
WordSave(p) ==
    /\ pc[p] = "word_save"
    /\ LET saved == [local[p].found_word EXCEPT !.frequency = @ + 1, !.is_mined = FALSE] IN
          /\ words' = [words EXCEPT ![saved.id] = saved]
          /\ local' = [local EXCEPT ![p].word_entry = saved]
    /\ upserts' = [upserts EXCEPT ![RequestKey(p)] = @ + 1]
    /\ Goto(p, "sentence_new")
    /\ UNCHANGED <<sentences, sentence_seq, mining_batches, req, faults, committed>>

\* Mutant of WordsUniqueViolation: table words has no unique key.
WordsUniqueViolation_NoKey(user, dictionary_form, reading) == FALSE

\* The unique key (user_id, dictionary_form, reading) of table words.
WordsUniqueViolation(user, dictionary_form, reading) ==
    \E i \in DOMAIN words : /\ words[i].user_id = user
                            /\ words[i].dictionary_form = dictionary_form
                            /\ words[i].reading = reading

\* Err(_): insert a new row.
WordInsert(p) ==
    /\ pc[p] = "word_insert"
    /\ IF WordsUniqueViolation(req[p].user, req[p].dictionary_form, req[p].reading)
          THEN /\ Finish(p, "DatabaseError")
               /\ UNCHANGED <<words, local, upserts>>
          ELSE LET inserted == NewWord(Len(words) + 1, req[p].user,
                                       req[p].dictionary_form, req[p].reading) IN
               /\ words' = Append(words, inserted)
               /\ local' = [local EXCEPT ![p].word_entry = inserted]
               /\ upserts' = [upserts EXCEPT ![RequestKey(p)] = @ + 1]
               /\ Goto(p, "sentence_new")
    /\ UNCHANGED <<sentences, sentence_seq, mining_batches, req, faults, committed>>

\* Sentence::new, and the success response of routes::sentences::new.
SentenceNew(p) ==
    /\ pc[p] = "sentence_new"
    /\ LET inserted == NewSentence(sentence_seq + 1, req[p].user, local[p].word_entry,
                                   req[p].sentence) IN
          /\ sentences' = sentences \cup {inserted}
          /\ sentence_seq' = sentence_seq + 1
          /\ local' = [local EXCEPT ![p].sentence_entry = inserted,
                                    ![p].entries =
                                       <<UserSentenceEntry(local[p].word_entry, inserted)>>]
    /\ Finish(p, "Ok")
    /\ UNCHANGED <<words, mining_batches, req, faults, committed, upserts>>

----------------------------------------------------------------------------
(* GET /sentences: User::get_pending_sentences *)

\* The orders in which the elements of a set may be handed out (the rows of a
\* select without ORDER BY, the values of a HashMap).
Orders(S) ==
    {f \in [1..Cardinality(S) -> S] : \A i, j \in 1..Cardinality(S) : f[i] = f[j] => i = j}

\* sorted_by with a comparator that compares keys: a stable sort, keys[i] is
\* the key of seq[i].
SortedBy(seq, keys) ==
    LET Before(i) == {j \in DOMAIN seq : keys[j] < keys[i] \/ (keys[j] = keys[i] /\ j < i)}
    IN  [r \in DOMAIN seq |-> seq[CHOOSE i \in DOMAIN seq : Cardinality(Before(i)) = r - 1]]

RECURSIVE Flatten(_)
Flatten(seqs) == IF seqs = <<>> THEN <<>> ELSE Head(seqs) \o Flatten(Tail(seqs))

\* SELECT ... FROM sentences INNER JOIN words WHERE sentences.user_id = <user>
\* AND sentences.is_pending.
PendingRows(user) ==
    {<<s, words[s.word_id]>> :
        s \in {t \in sentences : /\ t.user_id = user
                                 /\ t.is_pending
                                 /\ t.word_id \in DOMAIN words}}

\* Mutant of SortGroups: the buckets are ordered by ascending frequency.
SortGroups_Ascending(groups) ==
    SortedBy(groups, [i \in DOMAIN groups |-> groups[i][1].mining_frequency])

\* sorted_by(|lhs, rhs| lhs[0].mining_frequency.cmp(&rhs[0].mining_frequency).reverse()).
SortGroups(groups) ==
    SortedBy(groups, [i \in DOMAIN groups |-> 0 - groups[i][1].mining_frequency])

\* sorted_by(|lhs, rhs| lhs.dictionary_frequency.cmp(&rhs.dictionary_frequency)).
SortEntries(user_sentence_entries) ==
    SortedBy(user_sentence_entries,
             [i \in DOMAIN user_sentence_entries |->
                 user_sentence_entries[i].dictionary_frequency])

\* The entries of the rows, in the order of the rows, that fall in one bucket.
frequency_groups(rows) ==
    [f \in {rows[i][2].frequency : i \in DOMAIN rows} |->
        LET hits == SortedBy([i \in DOMAIN rows |-> i],
                             [i \in DOMAIN rows |->
                                 IF rows[i][2].frequency = f THEN 0 ELSE 1])
            size == Cardinality({i \in DOMAIN rows : rows[i][2].frequency = f})
        IN  [n \in 1..size |-> UserSentenceEntry(rows[hits[n]][2], rows[hits[n]][1])]]

\* User::get_pending_sentences on the rows as loaded, the buckets being handed
\* out by the HashMap in the order values (a sequence of frequencies).
get_pending_sentences(rows, values) ==
    LET groups == frequency_groups(rows) IN
    Flatten(SortGroups([n \in DOMAIN values |-> SortEntries(groups[values[n]])]))

\* routes::sentences::get.
Get(p) ==
    /\ pc[p] = "idle"
    /\ p \in limits.slots
    /\ \E user \in Users :
          /\ req' = [req EXCEPT ![p] = [NoRequest EXCEPT !.op = "get", !.user = user]]
          /\ \E rows \in Orders(PendingRows(user)) :
                \E values \in Orders(DOMAIN frequency_groups(rows)) :
                   local' = [local EXCEPT ![p].entries = get_pending_sentences(rows, values)]
    /\ Finish(p, "Ok")
    /\ UNCHANGED <<store, faults, committed, upserts>>

\* The load fails.
GetError(p) ==
    /\ pc[p] = "idle"
    /\ p \in limits.slots
    /\ faults < MaxFaults
    /\ \E user \in Users :
          req' = [req EXCEPT ![p] = [NoRequest EXCEPT !.op = "get", !.user = user]]
    /\ Finish(p, "DatabaseError")
    /\ faults' = faults + 1
    /\ UNCHANGED <<store, local, committed, upserts>>

----------------------------------------------------------------------------
(* DELETE /sentences/<sentence_id> *)

\* Mutant of get_pending_sentence_by_id: the lookup is not restricted to the
\* user's sentences.
get_pending_sentence_by_id_AnyOwner(user, sentence_id) ==
    {s \in sentences : s.id = sentence_id /\ s.is_pending}

\* User::get_pending_sentence_by_id: the user's pending sentence with this id.
get_pending_sentence_by_id(user, sentence_id) ==
    {s \in sentences : s.user_id = user /\ s.id = sentence_id /\ s.is_pending}

\* routes::sentences::delete, the lookup.
Delete(p) ==
    /\ pc[p] = "idle"
    /\ p \in limits.slots
    /\ \E user \in Users, sentence_id \in SentenceIds :
          /\ req' = [req EXCEPT ![p] = [NoRequest EXCEPT !.op = "delete", !.user = user,
                                                         !.sentence_id = sentence_id]]
          /\ LET found == get_pending_sentence_by_id(user, sentence_id) IN
                IF found = {}
                   THEN /\ Finish(p, "NotFound")
                        /\ UNCHANGED local
                   ELSE /\ \E s \in found :
                              local' = [local EXCEPT ![p].pending_sentence = s]
                        /\ Goto(p, "sentence_delete")
    /\ UNCHANGED <<store, faults, committed, upserts>>

\* Mutant of SentenceDelete: the delete also takes the sentence's mining out
\* of the frequency of its word.
SentenceDelete_ReleaseWord(p) ==
    /\ pc[p] = "sentence_delete"
    /\ sentences' = {s \in sentences : s.id # local[p].pending_sentence.id}
    /\ words' = [i \in DOMAIN words |->
                    IF i = local[p].pending_sentence.word_id
                       THEN [words[i] EXCEPT !.frequency = @ - 1]
                       ELSE words[i]]
    /\ Finish(p, "Ok")
    /\ UNCHANGED <<sentence_seq, mining_batches, req, local, faults, committed, upserts>>

\* Sentence::delete: DELETE FROM sentences WHERE id = self.id.
SentenceDelete(p) ==
    /\ pc[p] = "sentence_delete"
    /\ sentences' = {s \in sentences : s.id # local[p].pending_sentence.id}
    /\ Finish(p, "Ok")
    /\ UNCHANGED <<words, sentence_seq, mining_batches, req, local, faults, committed, upserts>>

----------------------------------------------------------------------------
(* POST /sentences/batches: User::commit_batch *)

\* Mutant of CommitRows: the select is not restricted to the user's sentences.
CommitRows_AnyOwner(user, sentence_ids) ==
    {[sentence_id |-> s.id, word_id |-> s.word_id] :
        s \in {t \in sentences : /\ t.is_pending
                                 /\ t.id \in Range(sentence_ids)
                                 /\ t.word_id \in DOMAIN words}}

\* Mutant of CommitRows: the select is not restricted to pending sentences.
CommitRows_AnyState(user, sentence_ids) ==
    {[sentence_id |-> s.id, word_id |-> s.word_id] :
        s \in {t \in sentences : /\ t.user_id = user
                                 /\ t.id \in Range(sentence_ids)
                                 /\ t.word_id \in DOMAIN words}}

\* The user's pending sentences among sentence_ids, joined with their words.
CommitRows(user, sentence_ids) ==
    {[sentence_id |-> s.id, word_id |-> s.word_id] :
        s \in {t \in sentences : /\ t.user_id = user
                                 /\ t.is_pending
                                 /\ t.id \in Range(sentence_ids)
                                 /\ t.word_id \in DOMAIN words}}

CommitRequest(user, sentence_ids) ==
    [NoRequest EXCEPT !.op = "commit", !.user = user, !.sentence_ids = sentence_ids]

\* The select of the rows and the length check.
CommitFetch(p) ==
    /\ pc[p] = "idle"
    /\ p \in limits.slots
    /\ Len(mining_batches) + InFlight("commit") < MaxBatches
    /\ \E user \in Users, sentence_ids \in IdLists :
          /\ req' = [req EXCEPT ![p] = CommitRequest(user, sentence_ids)]
          /\ LET rows == CommitRows(user, sentence_ids) IN
                IF Cardinality(rows) # Len(sentence_ids)
                   THEN /\ Finish(p, "InvalidSentencesProvided")
                        /\ UNCHANGED local
                   ELSE /\ local' = [local EXCEPT ![p].rows = rows]
                        /\ Goto(p, "batch_new")
    /\ UNCHANGED <<store, faults, committed, upserts>>

\* The select fails.
CommitFetchError(p) ==
    /\ pc[p] = "idle"
    /\ p \in limits.slots
    /\ faults < MaxFaults
    /\ Len(mining_batches) + InFlight("commit") < MaxBatches
    /\ \E user \in Users, sentence_ids \in IdLists :
          req' = [req EXCEPT ![p] = CommitRequest(user, sentence_ids)]
    /\ Finish(p, "DatabaseError")
    /\ faults' = faults + 1
    /\ UNCHANGED <<store, local, committed, upserts>>

\* MiningBatch::new.
MiningBatchNew(p) ==
    /\ pc[p] = "batch_new"
    /\ LET inserted == NewMining(Len(mining_batches) + 1, req[p].user) IN
          /\ mining_batches' = Append(mining_batches, inserted)
          /\ local' = [local EXCEPT ![p].mining_batch = inserted.id]
    /\ Goto(p, "update_sentences")
    /\ UNCHANGED <<words, sentences, sentence_seq, req, faults, committed, upserts>>

\* Mutant of UpdateSentences: the update leaves is_pending alone.
UpdateSentences_KeepPending(sentence_ids, mining_batch) ==
    {IF s.id \in Range(sentence_ids) THEN [s EXCEPT !.mining_batch_id = mining_batch] ELSE s :
        s \in sentences}

\* Mutant of UpdateSentences: the update leaves mining_batch_id alone.
UpdateSentences_KeepBatch(sentence_ids, mining_batch) ==
    {IF s.id \in Range(sentence_ids) THEN [s EXCEPT !.is_pending = FALSE] ELSE s :
        s \in sentences}

\* UPDATE sentences SET is_pending = false, mining_batch_id = <batch>
\* WHERE id = ANY(sentence_ids).
UpdateSentences(sentence_ids, mining_batch) ==
    {IF s.id \in Range(sentence_ids)
        THEN [s EXCEPT !.is_pending = FALSE, !.mining_batch_id = mining_batch]
        ELSE s : s \in sentences}

CommitUpdateSentences(p) ==
    /\ pc[p] = "update_sentences"
    /\ sentences' = UpdateSentences(req[p].sentence_ids, local[p].mining_batch)
    /\ Goto(p, "update_words")
    /\ UNCHANGED <<words, sentence_seq, mining_batches, req, local, faults, committed, upserts>>

\* Mutant of UpdateWords: the update is not restricted to the words of the
\* rows.
UpdateWords_EveryWord(rows) ==
    [i \in DOMAIN words |-> [words[i] EXCEPT !.is_mined = TRUE]]

\* UPDATE words SET is_mined = true WHERE id = ANY(<word ids of rows>).
UpdateWords(rows) ==
    [i \in DOMAIN words |->
        IF i \in {r.word_id : r \in rows} THEN [words[i] EXCEPT !.is_mined = TRUE]
                                          ELSE words[i]]

\* The update of the words and Ok(mining_batch).
CommitUpdateWords(p) ==
    /\ pc[p] = "update_words"
    /\ words' = UpdateWords(local[p].rows)
    /\ committed' = committed \cup {<<req[p].user, Range(req[p].sentence_ids)>>}
    /\ Finish(p, "Ok")
    /\ UNCHANGED <<sentences, sentence_seq, mining_batches, req, local, faults, upserts>>

----------------------------------------------------------------------------
(* Store failures *)

FallibleStatements == {"word_save", "word_insert", "sentence_new", "sentence_delete",
                       "batch_new", "update_sentences", "update_words"}

\* A statement returns Err and the handler propagates it with `?`.
StoreError(p) ==
    /\ pc[p] \in FallibleStatements
    /\ faults < MaxFaults
    /\ faults' = faults + 1
    /\ Finish(p, "DatabaseError")
    /\ UNCHANGED <<store, req, local, committed, upserts>>

----------------------------------------------------------------------------
(* GET /sentences/batches/<mining_batch_id>, GET /sentences/batches *)

\* Ids a request may name: the batches that may exist and one that never does.
MiningBatchIds == 1..(MaxBatches + 1)

\* Mutant of get_mining_batch_by_id: the lookup is not restricted to the
\* user's batches.
get_mining_batch_by_id_AnyOwner(user, mining_batch_id) ==
    {mining_batches[i] : i \in {j \in DOMAIN mining_batches :
                                   mining_batches[j].id = mining_batch_id}}

\* User::get_mining_batch_by_id: the user's batch with this id.
get_mining_batch_by_id(user, mining_batch_id) ==
    {mining_batches[i] : i \in {j \in DOMAIN mining_batches :
                                   /\ mining_batches[j].id = mining_batch_id
                                   /\ mining_batches[j].user_id = user}}

\* Mutant of BatchRows: the committed sentences of every batch.
BatchRows_AnyBatch(mining_batch) ==
    {s \in sentences : s.mining_batch_id # None /\ s.word_id \in DOMAIN words}

\* The sentences of the batch, joined with their words.
BatchRows(mining_batch) ==
    {s \in sentences : s.mining_batch_id = mining_batch /\ s.word_id \in DOMAIN words}

\* MiningBatch::get_sentences on the rows as the store returned them.
get_sentences(rows) ==
    [n \in DOMAIN rows |-> UserSentenceEntry(words[rows[n].word_id], rows[n])]

\* routes::sentences::get_batch, the lookup.
GetBatch(p) ==
    /\ pc[p] = "idle"
    /\ p \in limits.slots
    /\ \E user \in Users, mining_batch_id \in MiningBatchIds :
          /\ req' = [req EXCEPT ![p] = [NoRequest EXCEPT !.op = "get_batch", !.user = user,
                                             !.mining_batch_id = mining_batch_id]]
          /\ LET found == get_mining_batch_by_id(user, mining_batch_id) IN
                IF found = {}
                   THEN /\ Finish(p, "BatchNotFound")
                        /\ UNCHANGED local
                   ELSE /\ \E mining_batch \in found :
                              local' = [local EXCEPT ![p].mining_batch = mining_batch.id]
                        /\ Goto(p, "get_sentences")
    /\ UNCHANGED <<store, faults, committed, upserts>>

\* routes::sentences::get_batch, the load of the batch's sentences.
GetBatchSentences(p) ==
    /\ pc[p] = "get_sentences"
    /\ \E rows \in Orders(BatchRows(local[p].mining_batch)) :
          local' = [local EXCEPT ![p].entries = get_sentences(rows)]
    /\ Finish(p, "Ok")
    /\ UNCHANGED <<store, req, faults, committed, upserts>>

\* The load fails.
GetBatchSentencesError(p) ==
    /\ pc[p] = "get_sentences"
    /\ faults < MaxFaults
    /\ Finish(p, "DatabaseError")
    /\ faults' = faults + 1
    /\ UNCHANGED <<store, req, local, committed, upserts>>

Reverse(seq) == [n \in DOMAIN seq |-> seq[Len(seq) + 1 - n]]

OwnedBy(user, mining_batch) == mining_batch.user_id = user

\* Mutant of get_all_mining_batches: the batches in the order of their
\* creation.
get_all_mining_batches_OldestFirst(user) ==
    SelectSeq(mining_batches, LAMBDA mining_batch : OwnedBy(user, mining_batch))

\* User::get_all_mining_batches: the user's batches, the last created first.
\* Rows are appended to mining_batches as they are created.
get_all_mining_batches(user) ==
    SelectSeq(Reverse(mining_batches), LAMBDA mining_batch : OwnedBy(user, mining_batch))

\* routes::sentences::get_all_batches.
GetAllBatches(p) ==
    /\ pc[p] = "idle"
    /\ p \in limits.slots
    /\ \E user \in Users :
          /\ req' = [req EXCEPT ![p] = [NoRequest EXCEPT !.op = "get_all_batches",
                                                         !.user = user]]
          /\ local' = [local EXCEPT ![p].batches = get_all_mining_batches(user)]
    /\ Finish(p, "Ok")
    /\ UNCHANGED <<store, faults, committed, upserts>>

\* The load fails.
GetAllBatchesError(p) ==
    /\ pc[p] = "idle"
    /\ p \in limits.slots
    /\ faults < MaxFaults
    /\ \E user \in Users :
          req' = [req EXCEPT ![p] = [NoRequest EXCEPT !.op = "get_all_batches",
                                                     !.user = user]]
    /\ Finish(p, "DatabaseError")
    /\ faults' = faults + 1
    /\ UNCHANGED <<store, local, committed, upserts>>

----------------------------------------------------------------------------
(* POST /analyze: analyzer.rs *)

\* The nodes of the tokenizer: stat, the surface, and the feature string as
\* its comma-separated fields.
BosNode == [stat |-> "BOS", surface |-> "", feature |-> <<"BOS/EOS">>]
EosNode == [stat |-> "EOS", surface |-> "", feature |-> <<"BOS/EOS">>]

\* The feature vectors of the nodes of a sentence: the dictionary form and
\* the reading, each known or "*", are the third and the second field from
\* the end; a vector may be too short to have them.
SentenceFeatures ==
    {<<dictionary_form, reading, "*">> : dictionary_form \in {"*", "d"}, reading \in {"*", "r"}}
    \cup {<<"p", dictionary_form, reading, "*">> :
              dictionary_form \in {"*", "d"}, reading \in {"*", "r"}}
    \cup {<<"p", "*">>}

SentenceNodes == [stat : {"NOR"}, surface : {"a"}, feature : SentenceFeatures]

\* What the tokenizer may make of a sentence: BOS, one or two nodes, EOS.
SentenceParses ==
    {<<BosNode, node, EosNode>> : node \in SentenceNodes}
    \cup {<<BosNode, first, second, EosNode>> : first \in SentenceNodes, second \in SentenceNodes}

\* What the tokenizer may make of a dictionary form or a surface given to it
\* alone: nothing, or a node with a reading, known or "*", or with too few
\* fields to have one.
WordParses ==
    {<<BosNode, EosNode>>}
    \cup {<<BosNode, [stat |-> "NOR", surface |-> "a", feature |-> feature], EosNode>> :
              feature \in {<<"p">>, <<"p", "d", "*", "*">>, <<"p", "d", "q", "*">>}}

Taggers ==
    {[input \in TaggerInputs |->
         CASE input = "s" -> sentence
           [] input = "a" -> surface
           [] input = "d" -> dictionary_form
           [] OTHER -> placeholder] :
        sentence \in SentenceParses, surface \in WordParses,
        dictionary_form \in WordParses, placeholder \in WordParses}

\* Tagger::new("").parse_to_node(input).iter_next().
parse_to_node(input) == limits.tagger[input]

\* node.stat is neither MECAB_BOS_NODE nor MECAB_EOS_NODE.
IsToken(node) == node.stat # "BOS" /\ node.stat # "EOS"

\* features.get(features.len().wrapping_sub(2)) is None when the vector has
\* fewer than two fields.
dictionary_form_to_reading(dictionary_form, default) ==
    LET nodes == parse_to_node(dictionary_form)
        found == {n \in DOMAIN nodes : IsToken(nodes[n])}
    IN  IF found = {} THEN default
        ELSE LET node == nodes[CHOOSE n \in found : \A m \in found : n <= m]
                 features == node.feature
             IN  IF Len(features) < 2 THEN default ELSE features[Len(features) - 1]

\* features.remove(features.len().wrapping_sub(3)) panics when the vector
\* has fewer than three fields.
Panics(nodes) == \E n \in DOMAIN nodes : IsToken(nodes[n]) /\ Len(nodes[n].feature) < 3

\* The Morpheme of a node.  The second remove takes, of the vector without
\* the field the first one took, the field that was the second from the end.
MorphemeOf(node) ==
    LET morpheme == node.surface
        features == node.feature
        dictionary_form == features[Len(features) - 2]
        reading == features[Len(features) - 1]
    IN  [morpheme |-> morpheme,
         dictionary_form |-> IF dictionary_form = "*" THEN morpheme ELSE dictionary_form,
         reading |-> IF reading = "*" THEN morpheme
                     ELSE dictionary_form_to_reading(dictionary_form, reading),
         features |-> features]

analyze_sentence(sentence) ==
    LET nodes == SelectSeq(parse_to_node(sentence), IsToken)
    IN  [n \in DOMAIN nodes |-> MorphemeOf(nodes[n])]

\* routes::analyzer::analyze.
Analyze(p) ==
    /\ pc[p] = "idle"
    /\ p \in limits.slots
    /\ \E user \in Users, sentence \in {"", "s"} :
          /\ req' = [req EXCEPT ![p] = [NoRequest EXCEPT !.op = "analyze", !.user = user,
                                                         !.sentence = sentence]]
          /\ IF sentence = ""
                THEN Finish(p, "ValidationError") /\ UNCHANGED local
             ELSE IF Panics(parse_to_node(sentence))
                THEN Finish(p, "Panic") /\ UNCHANGED local
             ELSE /\ local' = [local EXCEPT ![p].morphemes = analyze_sentence(sentence)]
                  /\ Finish(p, "Ok")
    /\ UNCHANGED <<store, faults, committed, upserts>>

----------------------------------------------------------------------------
(* Token service: jwt.rs, and the routes and operations that use it *)

TokenTypes == {"access", "refresh"}

\* JWT_SECRET.
JwtSecret == "secret"

\* str::parse::<u64> on the strings the variables are set to: digits only
\* (no sign other than +, no whitespace, not empty).
parse_u64(seconds) ==
    CASE seconds = "2" -> [ok |-> TRUE, value |-> 2]
      [] seconds = "3" -> [ok |-> TRUE, value |-> 3]
      [] OTHER -> [ok |-> FALSE, value |-> 0]

\* Mutant of get_int_env_with_default: a string that does not parse counts
\* as 0.
get_int_env_with_default_ZeroUnparsable(name, default) ==
    LET var == limits.env[name] IN
    IF var = <<>> THEN default ELSE parse_u64(var[1]).value

\* std::env::var(name) is Err when the variable is not set; unwrap_or(default)
\* when its string does not parse.
get_int_env_with_default(name, default) ==
    LET var == limits.env[name] IN
    IF var = <<>> THEN default
    ELSE IF parse_u64(var[1]).ok THEN parse_u64(var[1]).value ELSE default

\* get_access_token_expiry_time(), get_refresh_token_expiry_time(): the two
\* expiry times, in ticks.
AccessTokenExpiryTime == get_int_env_with_default("JWT_ACCESS_TOKEN_EXPIRY_TIME", 3600)
RefreshTokenExpiryTime == get_int_env_with_default("JWT_REFRESH_TOKEN_EXPIRY_TIME", 43800)

\* get_jwt_secret_hmac: std::env::var("JWT_SECRET").expect(..) panics when the
\* variable is not set.
get_jwt_secret_hmac ==
    IF limits.env.JWT_SECRET = <<>> THEN [panics |-> TRUE, key |-> ""]
                                    ELSE [panics |-> FALSE, key |-> limits.env.JWT_SECRET[1]]

\* SignWithKey: the claims with their MAC under the key.
sign_with_key(claims, key) == [claims |-> claims, mac |-> [claims |-> claims, key |-> key]]

\* VerifyWithKey: the MAC is the MAC of these claims under the key.
verify_with_key(token, key) == token.mac = [claims |-> token.claims, key |-> key]

generate_token(user, token_type) ==
    LET current_timestamp == now
        expiry_time == IF token_type = "access" THEN AccessTokenExpiryTime
                                                ELSE RefreshTokenExpiryTime
    IN  sign_with_key([iat |-> current_timestamp,
                       exp |-> current_timestamp + expiry_time,
                       sub |-> user.id,
                       gen |-> user.token_generation,
                       typ |-> token_type], JwtSecret)

\* User::find_by_id.
find_by_id(user_id) == IF user_id \in DOMAIN users THEN users[user_id] ELSE NoUser

\* self.token_generation += 1: the User value after the assignment.
increment_token_generation(self) ==
    [self EXCEPT !.token_generation = self.token_generation + 1]

\* save_changes: UPDATE users SET <every column of the value> WHERE id = self.id.
save_changes(self) == [users EXCEPT ![self.id] = self]

Err(error) == [error |-> error, user |-> NoUser]

Ok(user) == [error |-> "None", user |-> user]

\* Mutant of validate_token: a token is refused in the tick it was issued in.
validate_token_IatNotNow(token, token_type) ==
    LET claims == token.claims
        current_timestamp == now
        user == find_by_id(claims.sub)
    IN  IF ~verify_with_key(token, JwtSecret) THEN Err("MalformedToken")
        ELSE IF claims.typ # token_type THEN Err("InvalidType")
        ELSE IF claims.iat >= current_timestamp THEN Err("IatInTheFuture")
        ELSE IF claims.exp <= current_timestamp THEN Err("Expired")
        ELSE IF user = NoUser THEN Err("InvalidSubject")
        ELSE IF claims.gen # user.token_generation THEN Err("Revoked")
        ELSE Ok(user)

\* Mutant of validate_token: a token of an older generation is accepted.
validate_token_OlderGeneration(token, token_type) ==
    LET claims == token.claims
        current_timestamp == now
        user == find_by_id(claims.sub)
    IN  IF ~verify_with_key(token, JwtSecret) THEN Err("MalformedToken")
        ELSE IF claims.typ # token_type THEN Err("InvalidType")
        ELSE IF claims.iat > current_timestamp THEN Err("IatInTheFuture")
        ELSE IF claims.exp <= current_timestamp THEN Err("Expired")
        ELSE IF user = NoUser THEN Err("InvalidSubject")
        ELSE IF claims.gen > user.token_generation THEN Err("Revoked")
        ELSE Ok(user)

\* Mutant of validate_token: the kind of the token is not looked at.
validate_token_AnyType(token, token_type) ==
    LET claims == token.claims
        current_timestamp == now
        user == find_by_id(claims.sub)
    IN  IF ~verify_with_key(token, JwtSecret) THEN Err("MalformedToken")
        ELSE IF claims.iat > current_timestamp THEN Err("IatInTheFuture")
        ELSE IF claims.exp <= current_timestamp THEN Err("Expired")
        ELSE IF user = NoUser THEN Err("InvalidSubject")
        ELSE IF claims.gen # user.token_generation THEN Err("Revoked")
        ELSE Ok(user)

\* Mutant of validate_token: exp is looked at before iat.
validate_token_ExpFirst(token, token_type) ==
    LET claims == token.claims
        current_timestamp == now
        user == find_by_id(claims.sub)
    IN  IF ~verify_with_key(token, JwtSecret) THEN Err("MalformedToken")
        ELSE IF claims.typ # token_type THEN Err("InvalidType")
        ELSE IF claims.exp <= current_timestamp THEN Err("Expired")
        ELSE IF claims.iat > current_timestamp THEN Err("IatInTheFuture")
        ELSE IF user = NoUser THEN Err("InvalidSubject")
        ELSE IF claims.gen # user.token_generation THEN Err("Revoked")
        ELSE Ok(user)

validate_token(token, token_type) ==
    LET claims == token.claims
        current_timestamp == now
        user == find_by_id(claims.sub)
    IN  IF ~verify_with_key(token, JwtSecret) THEN Err("MalformedToken")
        ELSE IF claims.typ # token_type THEN Err("InvalidType")
        ELSE IF claims.iat > current_timestamp THEN Err("IatInTheFuture")
        ELSE IF claims.exp <= current_timestamp THEN Err("Expired")
        ELSE IF user = NoUser THEN Err("InvalidSubject")
        ELSE IF claims.gen # user.token_generation THEN Err("Revoked")
        ELSE Ok(user)

\* TokenClaims a client may put in a token: sub is any i32, so it may be the
\* id of no user.
ForgedClaims ==
    [iat : 0..MaxClaimTime, exp : 0..MaxClaimTime, sub : Users \cup {None},
     gen : 0..MaxGeneration, typ : TokenTypes]

\* The tokens a client may send: any claims, signed with the secret or with
\* another key.
ForgedTokens == {sign_with_key(claims, key) : claims \in ForgedClaims, key \in {JwtSecret, "other"}}

\* The settings of the two variables: not set, set to a string that is not a
\* u64, set to a number of ticks.
Envs ==
    [JWT_SECRET : {<<"secret">>},
     JWT_ACCESS_TOKEN_EXPIRY_TIME : {<<>>, <<"x">>, <<"">>, <<"2">>},
     JWT_REFRESH_TOKEN_EXPIRY_TIME : {<<>>, <<"-3">>, <<"3">>}]

IssueLimits == {[ConcurrentLimits EXCEPT !.env = env] : env \in Envs}

\* The server after rocket() has returned, with JWT_SECRET set or not set;
\* the clients send the tokens they were handed, or a token one of them has
\* kept from an earlier run of the server.
KeptToken ==
    sign_with_key([iat |-> 0, exp |-> 2, sub |-> 1, gen |-> 0, typ |-> "refresh"], JwtSecret)

StartupLimits ==
    {[scenario EXCEPT !.env.JWT_SECRET = secret] :
        scenario \in {ConcurrentLimits,
                      [ConcurrentLimits EXCEPT !.forged = TRUE,
                                               !.header = [scheme |-> "Bearer", spaces |-> 1,
                                                           credentials |-> KeptToken]]},
        secret \in {<<>>, <<"secret">>}}

\* A string of whitespace, read as a token: it carries no signature.
Whitespace == [claims |-> NoClaims, mac |-> [claims |-> NoClaims, key |-> " "]]

\* The Authorization header values a client may send: an empty or other
\* scheme word or Bearer, whitespace, and a token or nothing.
Headers ==
    [scheme : {"", "Basic", "Bearer"}, spaces : 0..MaxSpaces,
     credentials : ForgedTokens \cup {NoToken}]

GateLimits ==
    {[ConcurrentLimits EXCEPT !.forged = TRUE, !.header = header] : header \in Headers}

\* The header a client sends with a token it was handed.
BearerHeader(token) == [scheme |-> "Bearer", spaces |-> 1, credentials |-> token]

\* ^Bearer\s+(.+)$ and its capture 1: \s+ takes all the whitespace when
\* something follows it, and all but the last character, which (.+) then
\* takes, when nothing does.
extract_access_token_from_header(authorization_header) ==
    IF /\ authorization_header.scheme = "Bearer"
       /\ authorization_header.spaces >= 1
       /\ authorization_header.credentials # NoToken
        THEN [matched |-> TRUE, token |-> authorization_header.credentials]
    ELSE IF /\ authorization_header.scheme = "Bearer"
            /\ authorization_header.spaces >= 2
            /\ authorization_header.credentials = NoToken
        THEN [matched |-> TRUE, token |-> Whitespace]
    ELSE [matched |-> FALSE, token |-> NoToken]

\* Status::Unauthorized, Status::InternalServerError, Status::Ok.
Unauthorized == 401
InternalServerError == 500
StatusOk == 200

\* The handler panicked: the request ends without a response of the handler.
PanicResponse ==
    [status |-> "panic", message |-> "JWT_SECRET env variable should be set",
     http_status |-> InternalServerError]

\* Display of Status: the code and the reason phrase.
to_string(status) ==
    IF status = Unauthorized THEN "401 Unauthorized" ELSE "500 Internal Server Error"

\* ErrorResponse::fail, ErrorResponse::error.
fail(message, http_status) ==
    [status |-> "fail", message |-> message, http_status |-> http_status]

error(message, http_status) ==
    [status |-> "error", message |-> message, http_status |-> http_status]

\* SuccessResponse::new: its envelope (the data is the handler's).
SuccessResponse == [status |-> "success", message |-> "", http_status |-> StatusOk]

token_error_to_response(token_error) ==
    CASE token_error = "NoToken" -> fail("No Token Provided", Unauthorized)
      [] token_error = "MalformedToken" -> fail("Malformed Token Provided", Unauthorized)
      [] token_error = "IatInTheFuture" ->
            fail("Token with IAT in the Future Provided", Unauthorized)
      [] token_error = "Expired" -> fail("Expired Token Provided", Unauthorized)
      [] token_error = "Revoked" -> fail("Revoked Token Provided", Unauthorized)
      [] token_error = "InvalidSubject" ->
            fail("Token with Invalid Subject Provided", Unauthorized)
      [] token_error = "InvalidType" ->
            fail("Token with Invalid Type Provided", Unauthorized)
      [] OTHER -> error("Unexpected Token Error", InternalServerError)

\* routes::catcher::default: the catcher of every failed request, with the
\* token error the request cached.
default(status, token_validation_error) ==
    CASE token_validation_error = "NoToken" -> fail("No Token Provided", Unauthorized)
      [] token_validation_error = "MalformedToken" ->
            fail("Malformed Token Provided", Unauthorized)
      [] token_validation_error = "Revoked" -> fail("Revoked Token Provided", Unauthorized)
      [] token_validation_error = "IatInTheFuture" ->
            fail("Token with IAT in the Future Provided", Unauthorized)
      [] token_validation_error = "Expired" -> fail("Expired Token Provided", Unauthorized)
      [] token_validation_error = "InvalidSubject" ->
            fail("Token with Invalid Subject Provided", Unauthorized)
      [] OTHER -> IF status >= 400 /\ status < 500
                     THEN fail(to_string(status), status)
                     ELSE error(to_string(status), status)

\* Outcome::Success.
Success(user) == [success |-> TRUE, status |-> 0, error |-> "None", user |-> user]

\* TokenError::outcome: the error is cached in the request and the guard
\* fails with Status::Unauthorized.
TokenError_outcome(token_error) ==
    [success |-> FALSE, status |-> Unauthorized, error |-> token_error, user |-> NoUser]

\* User::from_request; pool_get is whether the pool hands out a connection.
from_request(authorization_header, pool_get) ==
    LET token == extract_access_token_from_header(authorization_header)
        validated == validate_token(token.token, "access")
    IN  IF ~token.matched THEN TokenError_outcome("NoToken")
        ELSE IF ~pool_get THEN TokenError_outcome("None")
        ELSE IF validated.error = "None" THEN Success(validated.user)
        ELSE TokenError_outcome(validated.error)

\* The record of a token handed out: the token, and the user, the kind and
\* the user's token_generation it was issued for.
Issued(user, token_type) ==
    [token |-> generate_token(user, token_type), user |-> user.id,
     token_type |-> token_type, generation |-> user.token_generation]

\* The access token and the refresh token of a login or refresh response.
TokenPair(user) == {Issued(user, "access"), Issued(user, "refresh")}

\* routes::authentication::login with the credentials of a user.
Login ==
    /\ Cardinality(tokens) + 2 <= MaxTokens
    /\ IF get_jwt_secret_hmac.panics
          THEN /\ verdict' = [NoVerdict EXCEPT !.at = now, !.response = PanicResponse]
               /\ UNCHANGED tokens
          ELSE /\ \E u \in Users : tokens' = tokens \cup TokenPair(users[u])
               /\ UNCHANGED verdict
    /\ UNCHANGED <<users, now, handles, mining, limits>>

\* The tokens and headers of the requests, and whether the pool hands out a
\* connection.
RefreshTokens ==
    IF limits.forged THEN {limits.header.credentials} \ {NoToken}
                     ELSE {i.token : i \in tokens}

AuthorizationHeaders ==
    IF limits.forged THEN {limits.header} ELSE {BearerHeader(i.token) : i \in tokens}

PoolGets == IF limits.forged THEN BOOLEAN ELSE {TRUE}

\* Mutant of Refresh: a refresh that succeeds increments the user's
\* token_generation.
Refresh_Revoking ==
    /\ \E refresh_token \in RefreshTokens :
          LET outcome == validate_token(refresh_token, "refresh") IN
          /\ ~get_jwt_secret_hmac.panics
          /\ verdict' = [header |-> NoHeader, token |-> refresh_token,
                         token_type |-> "refresh", at |-> now, outcome |-> outcome,
                         guard |-> NoGuard,
                         response |-> IF outcome.error = "None"
                                         THEN SuccessResponse
                                         ELSE token_error_to_response(outcome.error)]
          /\ IF outcome.error = "None" /\ outcome.user.token_generation < MaxGeneration
                THEN users' = save_changes(increment_token_generation(outcome.user))
                ELSE UNCHANGED users
          /\ UNCHANGED tokens
    /\ UNCHANGED <<now, handles, mining, limits>>

\* routes::authentication::refresh.  The tokens it hands out are recorded
\* when only such tokens are sent.
Refresh ==
    /\ \E refresh_token \in RefreshTokens :
          LET outcome == validate_token(refresh_token, "refresh") IN
          IF get_jwt_secret_hmac.panics
             THEN /\ verdict' = [NoVerdict EXCEPT !.at = now, !.response = PanicResponse]
                  /\ UNCHANGED tokens
             ELSE
          /\ verdict' = [header |-> NoHeader, token |-> refresh_token,
                         token_type |-> "refresh", at |-> now, outcome |-> outcome,
                         guard |-> NoGuard,
                         response |-> IF outcome.error = "None"
                                         THEN SuccessResponse
                                         ELSE token_error_to_response(outcome.error)]
          /\ IF /\ outcome.error = "None"
                /\ ~limits.forged
                /\ Cardinality(tokens) + 2 <= MaxTokens
                THEN tokens' = tokens \cup TokenPair(outcome.user)
                ELSE UNCHANGED tokens
    /\ UNCHANGED <<users, now, handles, mining, limits>>

\* GET /auth/me: the request guard of User (the one of the sentence routes
\* and of the analyzer too), then routes::authentication::me, or the catcher
\* when the guard failed.
FromRequest ==
    /\ \E authorization_header \in AuthorizationHeaders, pool_get \in PoolGets :
          LET token == extract_access_token_from_header(authorization_header)
              called == token.matched /\ pool_get
              guard == from_request(authorization_header, pool_get)
          IN  IF called /\ get_jwt_secret_hmac.panics
                 THEN verdict' = [NoVerdict EXCEPT !.header = authorization_header,
                                                   !.at = now, !.response = PanicResponse]
                 ELSE
              verdict' = [header |-> authorization_header,
                          token |-> IF called THEN token.token ELSE NoToken,
                          token_type |-> IF called THEN "access" ELSE "none",
                          at |-> now,
                          outcome |-> IF called THEN validate_token(token.token, "access")
                                                ELSE NoVerdict.outcome,
                          guard |-> guard,
                          response |-> IF guard.success
                                          THEN SuccessResponse
                                          ELSE default(guard.status, guard.error)]
    /\ UNCHANGED <<users, now, tokens, handles, mining, limits>>

\* User::increment_token_generation on the user's row as stored: the value
\* is loaded, incremented and saved with nothing in between.
IncrementTokenGeneration ==
    /\ \E u \in Users :
          LET self == users[u] IN
          /\ self.token_generation < MaxGeneration
          /\ users' = save_changes(increment_token_generation(self))
    /\ UNCHANGED <<now, tokens, verdict, handles, mining, limits>>

\* User::find_by_id (login, the guard, registration): a caller is given the
\* row of a user as it is stored now.
FindById(h) ==
    /\ handles[h] = NoUser
    /\ \E u \in Users : handles' = [handles EXCEPT ![h] = find_by_id(u)]
    /\ UNCHANGED <<users, now, tokens, verdict, mining, limits>>

\* User::increment_token_generation on a User value a caller holds: Ok.
IncrementTokenGenerationOf(h) ==
    /\ handles[h] # NoUser
    /\ handles[h].token_generation < MaxGeneration
    /\ LET self == increment_token_generation(handles[h]) IN
          /\ handles' = [handles EXCEPT ![h] = self]
          /\ users' = save_changes(self)
    /\ UNCHANGED <<now, tokens, verdict, mining, limits>>

\* save_changes fails: the value stays incremented, the row is not written.
IncrementTokenGenerationError(h) ==
    /\ handles[h] # NoUser
    /\ handles[h].token_generation < MaxGeneration
    /\ faults < MaxFaults
    /\ faults' = faults + 1
    /\ handles' = [handles EXCEPT ![h] = increment_token_generation(handles[h])]
    /\ UNCHANGED <<users, now, tokens, verdict, limits, store, pc, req, local, result,
                   committed, upserts>>

\* The caller drops its User value.
DropUser(h) ==
    /\ handles[h] # NoUser
    /\ handles' = [handles EXCEPT ![h] = NoUser]
    /\ UNCHANGED <<users, now, tokens, verdict, mining, limits>>

\* get_current_timestamp() a second later.
Tick ==
    /\ now < MaxTime
    /\ now' = now + 1
    /\ UNCHANGED <<users, tokens, verdict, handles, mining, limits>>

\* The system clock is set back by a second.
ClockSetBack ==
    /\ now > 0
    /\ now' = now - 1
    /\ UNCHANGED <<users, tokens, verdict, handles, mining, limits>>

----------------------------------------------------------------------------
(* Properties of the batch commit and of the store *)

MembersIn(rows, mining_batch) ==
    {s.id : s \in {t \in rows : t.mining_batch_id = mining_batch}}

\* A commit has inserted this batch and has not yet run its sentence update.
InCreation(mining_batch) ==
    \E p \in Procs : pc[p] = "update_sentences" /\ local[p].mining_batch = mining_batch

\* The step in which slot p's commit returns.
CommitReturns(p) == pc[p] # "done" /\ pc'[p] = "done" /\ req'[p].op = "commit"

\* The step in which slot p's commit runs its select and the store answers.
CommitSelects(p) ==
    pc[p] = "idle" /\ pc'[p] # "idle" /\ req'[p].op = "commit" /\ result'[p] # "DatabaseError"

\* Some id is not a pending sentence of the user, or the list repeats an id.
InvalidSentenceIds(user, sentence_ids) ==
    \/ \E id \in Range(sentence_ids) :
          ~ \E s \in sentences : s.id = id /\ s.user_id = user /\ s.is_pending
    \/ Cardinality(Range(sentence_ids)) # Len(sentence_ids)

\* C1. Batch atomicity: when a commit returns, either it returned Ok, every
\* input id is a sentence with is_pending = false and the new batch, and every
\* word those sentences reference has is_mined = true; or it returned an error
\* and it has changed nothing (it has inserted no batch row).
C1_BatchAtomicity ==
    [][\A p \in Procs : CommitReturns(p) =>
          \/ /\ result'[p] = "Ok"
             /\ \A id \in Range(req'[p].sentence_ids) :
                   \E s \in sentences' :
                      /\ s.id = id
                      /\ ~s.is_pending
                      /\ s.mining_batch_id = local'[p].mining_batch
                      /\ words'[s.word_id].is_mined
          \/ /\ result'[p] # "Ok"
             /\ local'[p].mining_batch = None
             /\ store' = store]_vars

\* C2. A commit that fails with a store error after it inserted its batch
\* leaves no batch visible and no sentence referencing the batch.
C2_FailedCommitLeavesNothing ==
    \A p \in Procs :
       (pc[p] = "done" /\ req[p].op = "commit" /\ result[p] = "DatabaseError"
          /\ local[p].mining_batch # None) =>
       /\ local[p].mining_batch \notin DOMAIN mining_batches
       /\ \A s \in sentences :
             s.id \in Range(req[p].sentence_ids) => s.mining_batch_id # local[p].mining_batch

\* C3. No sentence that has been committed into a batch is later committed
\* into a different batch.
C3_NoSentenceInTwoBatches ==
    [][\A s \in sentences : \A t \in sentences' :
          (s.id = t.id /\ s.mining_batch_id # None) =>
             t.mining_batch_id = s.mining_batch_id]_vars

\* C4. A commit whose id list names a sentence that does not exist, is owned
\* by another user or is already committed, or repeats an id, returns
\* InvalidSentencesProvided and leaves the store unchanged.
C4_InvalidIdsRejected ==
    [][\A p \in Procs :
          (CommitSelects(p) /\ InvalidSentenceIds(req'[p].user, req'[p].sentence_ids)) =>
             /\ pc'[p] = "done"
             /\ result'[p] = "InvalidSentencesProvided"
             /\ store' = store]_vars

\* One commit has been rejected for a sentence owned by another user and one
\* for a sentence of the user that is already committed.
C4_Witness ==
    \E p, q \in Procs :
       /\ pc[p] = "done" /\ req[p].op = "commit"
       /\ result[p] = "InvalidSentencesProvided"
       /\ \E s \in sentences :
             s.id \in Range(req[p].sentence_ids) /\ s.user_id # req[p].user
       /\ pc[q] = "done" /\ req[q].op = "commit"
       /\ result[q] = "InvalidSentencesProvided"
       /\ \E s \in sentences :
             s.id \in Range(req[q].sentence_ids) /\ s.user_id = req[q].user /\ ~s.is_pending

\* C5. Once a commit of an id set by a user has returned Ok, every later
\* commit of the same id set by the same user returns InvalidSentencesProvided.
C5_DoubleCommitRejected ==
    [][\A p \in Procs :
          (CommitSelects(p)
             /\ <<req'[p].user, Range(req'[p].sentence_ids)>> \in committed) =>
             /\ pc'[p] = "done"
             /\ result'[p] = "InvalidSentencesProvided"]_vars

\* The second commit of a committed id set has been rejected.
C5_Witness ==
    \E p \in Procs :
       /\ pc[p] = "done" /\ req[p].op = "commit"
       /\ result[p] = "InvalidSentencesProvided"
       /\ <<req[p].user, Range(req[p].sentence_ids)>> \in committed

\* C6. Every sentence is pending if and only if it has no batch.
C6_PendingIffNoBatch ==
    \A s \in sentences : s.is_pending <=> (s.mining_batch_id = None)

\* A pending sentence and a committed sentence are both in the store.
C6_Witness ==
    /\ \E s \in sentences : s.is_pending
    /\ \E s \in sentences : ~s.is_pending /\ s.mining_batch_id # None

\* C7. Every sentence has the owner of its word, and every committed sentence
\* has the owner of its batch.
C7_OwnersAgree ==
    \A s \in sentences :
       /\ s.word_id \in DOMAIN words
       /\ words[s.word_id].user_id = s.user_id
       /\ s.mining_batch_id # None =>
             /\ s.mining_batch_id \in DOMAIN mining_batches
             /\ mining_batches[s.mining_batch_id].user_id = s.user_id

\* Both users have a word and a sentence, and one sentence is committed.
C7_Witness ==
    /\ \A u \in Users : \E s \in sentences : s.user_id = u
    /\ \E s \in sentences : s.mining_batch_id # None

\* C8. Every batch in the store (other than one whose commit is about to run
\* its sentence update) has at least one member sentence, in the executions
\* where no store statement fails.
C8_BatchNotEmpty ==
    faults = 0 =>
       \A b \in DOMAIN mining_batches :
          ~InCreation(b) => MembersIn(sentences, b) # {}

\* C9. A committed sentence keeps its row (is_pending = false and its batch)
\* and is never deleted, and the member set of a created batch never changes.
C9_CommittedIsFinal ==
    [][/\ \A s \in sentences :
             (~s.is_pending /\ s.mining_batch_id # None) => s \in sentences'
       /\ \A b \in DOMAIN mining_batches :
             ~InCreation(b) => MembersIn(sentences', b) = MembersIn(sentences, b)]_vars

\* A step of slot p's commit after its select: the insert of the batch, the
\* update of the sentences, the update of the words.
CommitWrites(p) ==
    /\ req[p].op = "commit"
    /\ pc[p] \in {"batch_new", "update_sentences", "update_words"}
    /\ pc'[p] # pc[p]

\* C37. A commit changes only the sentences whose ids it was given and the
\* is_mined of the words they reference: no sentence is inserted or deleted,
\* every other sentence and every other word is unchanged, no word's
\* frequency changes, and every batch that existed is unchanged.
C37_CommitFrame ==
    [][\A p \in Procs : CommitWrites(p) =>
          LET given == {s \in sentences : s.id \in Range(req[p].sentence_ids)} IN
          /\ {s.id : s \in sentences'} = {s.id : s \in sentences}
          /\ \A s \in sentences \ given : s \in sentences'
          /\ Len(words') = Len(words)
          /\ \A i \in DOMAIN words :
                /\ words'[i].frequency = words[i].frequency
                /\ words'[i] # words[i] =>
                      /\ i \in {s.word_id : s \in given}
                      /\ words'[i] = [words[i] EXCEPT !.is_mined = TRUE]
          /\ \A b \in DOMAIN mining_batches :
                b \in DOMAIN mining_batches' /\ mining_batches'[b] = mining_batches[b]]_vars

\* A commit of one sentence has returned Ok: its word, mined twice, has
\* is_mined = true and frequency 2, the user's other sentence is pending and
\* the word of the other user's sentence has is_mined = false.
C37_Witness ==
    \E p \in Procs :
       /\ pc[p] = "done"
       /\ req[p].op = "commit"
       /\ result[p] = "Ok"
       /\ Len(req[p].sentence_ids) = 1
       /\ \E s, t, o \in sentences :
             /\ s.id = req[p].sentence_ids[1]
             /\ ~s.is_pending
             /\ words[s.word_id].is_mined
             /\ words[s.word_id].frequency = 2
             /\ t.user_id = s.user_id /\ t.is_pending
             /\ o.user_id # s.user_id /\ o.is_pending
             /\ ~words[o.word_id].is_mined

\* C38. With admits, deletes and commits one after another, every word with
\* is_mined = true is referenced by a sentence that is not pending.  (That
\* such a word may also have a pending sentence is the state C38_Witness.)
C38_MinedHasCommitted ==
    \A i \in DOMAIN words :
       words[i].is_mined => \E s \in sentences : s.word_id = i /\ ~s.is_pending

\* A word with is_mined = true is referenced by a committed sentence and by
\* a pending one.
C38_Witness ==
    \E i \in DOMAIN words :
       /\ words[i].is_mined
       /\ \E s \in sentences : s.word_id = i /\ ~s.is_pending
       /\ \E s \in sentences : s.word_id = i /\ s.is_pending

\* C10. At most one word per (owner, dictionary form, reading).
C10_WordUniqueness ==
    \A i, j \in DOMAIN words :
       (/\ words[i].user_id = words[j].user_id
        /\ words[i].dictionary_form = words[j].dictionary_form
        /\ words[i].reading = words[j].reading) => i = j

\* Two admits of one user for one (dictionary form, reading) raced on the
\* insert: one inserted the word, the other got the unique violation.
C10_Witness ==
    /\ faults = 0
    /\ \A p \in Procs : pc[p] = "done" /\ req[p].op = "new"
    /\ req[1].user = req[2].user
    /\ req[1].dictionary_form = req[2].dictionary_form
    /\ req[1].reading = req[2].reading
    /\ \E p \in Procs : result[p] = "DatabaseError"
    /\ \E p \in Procs : result[p] = "Ok"

----------------------------------------------------------------------------
(* Properties of the word ledger and of the pending queue *)

\* The rows of a words table that have this key.
WordsOf(table, key) ==
    {w \in {table[i] : i \in DOMAIN table} :
        <<w.user_id, w.dictionary_form, w.reading>> = key}

\* The frequency a words table holds for this key, 0 when it has no such row.
FrequencyOf(table, key) ==
    IF WordsOf(table, key) = {} THEN 0 ELSE (CHOOSE w \in WordsOf(table, key) : TRUE).frequency

\* The step in which slot p's call of new_or_increase_frequency returns Ok.
UpsertReturns(p) == pc[p] \in {"word_save", "word_insert"} /\ pc'[p] = "sentence_new"

\* C11. Counter monotonicity, for calls that run one after another: a call of
\* new_or_increase_frequency that returns Ok leaves one word for the key, its
\* frequency 1 higher than before the call (1 when there was no word) and
\* is_mined = false; after n such calls the frequency is n.
C11_CounterMonotonicity ==
    [][\A p \in Procs : UpsertReturns(p) =>
          /\ Cardinality(WordsOf(words', RequestKey(p))) = 1
          /\ \A w \in WordsOf(words', RequestKey(p)) :
                /\ w.frequency = FrequencyOf(words, RequestKey(p)) + 1
                /\ ~w.is_mined
                /\ w.frequency = upserts'[RequestKey(p)]]_vars

\* Three calls for one key have returned Ok and the word has frequency 3.
C11_Witness ==
    \E key \in WordKeys : upserts[key] = 3 /\ FrequencyOf(words, key) = 3

\* C12. Two calls of new_or_increase_frequency that race on one key both
\* return Ok and are both counted: while no store statement fails, no admit
\* is answered with a store error and every word's frequency is the number of
\* calls for its key that returned Ok.
C12_RacingUpsertsBothCounted ==
    faults = 0 =>
       /\ \A p \in Procs :
             (pc[p] = "done" /\ req[p].op = "new") => result[p] # "DatabaseError"
       /\ \A key \in WordKeys : FrequencyOf(words, key) = upserts[key]

\* C13. Re-mine resets is_mined: when the word of the key has is_mined = true
\* and an admit for that key by its owner runs new_or_increase_frequency, the
\* word has is_mined = false once the call has returned.
C13_RemineResetsIsMined ==
    [][\A p \in Procs :
          (UpsertReturns(p) /\ \E w \in WordsOf(words, RequestKey(p)) : w.is_mined) =>
             \A w \in WordsOf(words', RequestKey(p)) : ~w.is_mined]_vars

\* An admit found its word with is_mined = true and has saved it with
\* is_mined = false.
C13_Witness ==
    \E p \in Procs :
       /\ pc[p] = "sentence_new"
       /\ local[p].found_word.is_mined
       /\ \A w \in WordsOf(words, RequestKey(p)) : ~w.is_mined /\ w.frequency = 2

\* The step in which slot p's admit runs its count query and the store answers.
AdmitChecks(p) ==
    pc[p] = "idle" /\ pc'[p] # "idle" /\ req'[p].op = "new" /\ result'[p] # "DatabaseError"

\* The step in which slot p's admit returns.
AdmitReturns(p) == pc[p] # "done" /\ pc'[p] = "done" /\ req'[p].op = "new"

\* C14. Pending cap: an admit passes the limit check when the user's pending
\* sentences are fewer than the cap, and is answered PendingLimitReached,
\* with the store unchanged, when they are as many or more; committed
\* sentences and other users' sentences are not counted.  With the requests
\* one after another, an admit that passed the check returns Ok unless a
\* store statement fails.
C14_PendingCap ==
    [][\A p \in Procs :
          /\ AdmitChecks(p) =>
                LET pending == {s \in sentences : s.user_id = req'[p].user /\ s.is_pending}
                IN  /\ Cardinality(pending) < limits.max_pending => pc'[p] = "word_find"
                    /\ Cardinality(pending) >= limits.max_pending =>
                          /\ pc'[p] = "done"
                          /\ result'[p] = "PendingLimitReached"
                          /\ store' = store
          /\ (AdmitReturns(p) /\ faults' = 0) =>
                result'[p] = IF pc[p] = "idle" THEN "PendingLimitReached" ELSE "Ok"]_vars

\* An admit has passed the limit check for a user whose sentences, the
\* committed ones included, are as many as the cap.
C14_Witness ==
    \E p \in Procs :
       /\ pc[p] = "word_find"
       /\ Cardinality({s \in sentences : s.user_id = req[p].user}) >= limits.max_pending
       /\ \E s \in sentences : s.user_id = req[p].user /\ ~s.is_pending

\* C15. With the cap fixed and k admits of one user in flight at once, the
\* user's pending sentences never exceed the cap by more than k; with the
\* admits one after another (k = 1) they never exceed the cap.  k is the
\* number of request slots of the scenario.
C15_PendingOvershoot ==
    \A user \in Users :
       Cardinality({s \in sentences : s.user_id = user /\ s.is_pending})
          <= limits.max_pending
                + (IF Cardinality(limits.slots) = 1 THEN 0 ELSE Cardinality(limits.slots))

\* Two admits in flight at once have both passed the limit check and the user
\* has more pending sentences than the cap.
C15_Witness ==
    \E user \in Users :
       /\ Cardinality(limits.slots) = 2
       /\ Cardinality({s \in sentences : s.user_id = user /\ s.is_pending})
             > limits.max_pending

RECURSIVE SumFrequency(_)
SumFrequency(table) ==
    IF table = <<>> THEN 0 ELSE Head(table).frequency + SumFrequency(Tail(table))

\* C39. With admits, deletes and commits one after another, every
\* word's frequency is the number of admits for it that returned Ok: while
\* no admit is under way, the frequencies of all words add up to the number
\* of admits that have returned Ok, which is the number of sentence ids
\* handed out (an admit returns Ok when, and only when, it has inserted its
\* sentence).
C39_FrequencyIsAdmits ==
    (\A p \in Procs : pc[p] \in {"idle", "done"}) => SumFrequency(words) = sentence_seq

\* What holds of the frequency with the requests one after another: it is
\* the number of admits for the word whose call of new_or_increase_frequency
\* returned Ok (the admits that returned Ok, and those that failed at the
\* insert of their sentence); it is at least 1 and at least the number of
\* sentences that reference the word, and no step decreases it.
FrequencyLedger ==
    [][/\ \A key \in WordKeys : FrequencyOf(words', key) = upserts'[key]
       /\ \A i \in DOMAIN words' :
             /\ words'[i].frequency >= 1
             /\ words'[i].frequency >= Cardinality({s \in sentences' : s.word_id = i})
             /\ i \in DOMAIN words => words'[i].frequency >= words[i].frequency]_vars

\* The rank of a word in the frequency list, the worst rank (one past the
\* list) for a word the list does not have.
CorpusRank(dictionary_form, reading) ==
    LET at == {i \in DOMAIN FrequencyListJson :
                  FrequencyListJson[i] = <<dictionary_form, reading>>}
    IN  IF at = {} THEN Len(FrequencyListJson) + 1
                   ELSE CHOOSE i \in at : \A j \in at : j <= i

\* C16. Ordering law: in the sentences GET /sentences returns, of two entries
\* the earlier one has a strictly higher mining frequency, or the same mining
\* frequency and a corpus rank that is not worse.
C16_OrderingLaw ==
    \A p \in Procs :
       (pc[p] = "done" /\ req[p].op = "get" /\ result[p] = "Ok") =>
          \A i, j \in DOMAIN local[p].entries :
             i < j =>
                LET s1 == local[p].entries[i]
                    s2 == local[p].entries[j]
                IN  \/ s1.mining_frequency > s2.mining_frequency
                    \/ /\ s1.mining_frequency = s2.mining_frequency
                       /\ CorpusRank(s1.dictionary_form, s1.reading)
                             <= CorpusRank(s2.dictionary_form, s2.reading)

\* A list of two entries has been returned: a sentence of a word mined twice
\* that the frequency list does not have, then a sentence of a word mined
\* once that has the better corpus rank.
C16_Witness ==
    \E p \in Procs :
       /\ pc[p] = "done" /\ req[p].op = "get" /\ result[p] = "Ok"
       /\ Len(local[p].entries) = 2
       /\ local[p].entries[1].mining_frequency = 2
       /\ local[p].entries[2].mining_frequency = 1
       /\ CorpusRank(local[p].entries[2].dictionary_form, local[p].entries[2].reading)
             < CorpusRank(local[p].entries[1].dictionary_form, local[p].entries[1].reading)

\* The step in which slot p's delete runs its lookup.
DeleteLooksUp(p) == pc[p] = "idle" /\ pc'[p] # "idle" /\ req'[p].op = "delete"

\* The step in which slot p's delete returns Ok.
DeleteSucceeds(p) ==
    pc[p] # "done" /\ pc'[p] = "done" /\ req'[p].op = "delete" /\ result'[p] = "Ok"

\* C17. A delete goes on to remove a sentence only if its lookup finds a
\* sentence with the id, owned by the user and pending; when there is no such
\* id, when the sentence is another user's and when it is committed, the
\* delete is answered NotFound and the store is unchanged.
C17_DeleteNotFound ==
    [][\A p \in Procs :
          /\ DeleteLooksUp(p) =>
                LET target == {s \in sentences : /\ s.id = req'[p].sentence_id
                                                 /\ s.user_id = req'[p].user
                                                 /\ s.is_pending}
                IN  /\ target = {} =>
                          /\ pc'[p] = "done"
                          /\ result'[p] = "NotFound"
                          /\ store' = store
                    /\ target # {} =>
                          /\ pc'[p] = "sentence_delete"
                          /\ local'[p].pending_sentence \in target
          /\ DeleteSucceeds(p) =>
                /\ pc[p] = "sentence_delete"
                /\ local[p].pending_sentence.id = req[p].sentence_id
                /\ local[p].pending_sentence.user_id = req[p].user
                /\ local[p].pending_sentence.is_pending]_vars

\* One delete has been answered NotFound for a pending sentence of another
\* user and one for a committed sentence of the user.
C17_Witness ==
    \E p, q \in Procs :
       /\ pc[p] = "done" /\ req[p].op = "delete" /\ result[p] = "NotFound"
       /\ \E s \in sentences :
             s.id = req[p].sentence_id /\ s.user_id # req[p].user /\ s.is_pending
       /\ pc[q] = "done" /\ req[q].op = "delete" /\ result[q] = "NotFound"
       /\ \E s \in sentences :
             s.id = req[q].sentence_id /\ s.user_id = req[q].user /\ ~s.is_pending

----------------------------------------------------------------------------
(* Properties of the token service *)

\* C19. Token round trip: a token issued for a user and a kind validates,
\* with that kind expected, to that user's row, at every time from its iat
\* to just before its exp, as long as the user's token_generation is the one
\* at issue.
C19_TokenRoundTrip ==
    \A i \in tokens :
       (/\ i.token.claims.iat <= now
        /\ now < i.token.claims.exp
        /\ users[i.user].token_generation = i.generation) =>
          validate_token(i.token, i.token_type) = Ok(users[i.user])

\* A refresh has resolved a refresh token to its user a tick after the token
\* was issued.
C19_Witness ==
    /\ verdict.outcome.error = "None"
    /\ verdict.outcome.user.id = verdict.token.claims.sub
    /\ verdict.token_type = "refresh"
    /\ verdict.at = verdict.token.claims.iat + 1
    /\ \E i \in tokens : i.token = verdict.token /\ i.user = verdict.outcome.user.id

C21_TypeSeparation ==
    (/\ verdict.token_type # "none"
     /\ verify_with_key(verdict.token, JwtSecret)
     /\ verdict.token.claims.typ # verdict.token_type) =>
        verdict.outcome = Err("InvalidType")

\* The guard has refused as InvalidType a refresh token that is also expired
\* and names no user.
C21_Witness ==
    /\ verdict.token_type = "access"
    /\ verify_with_key(verdict.token, JwtSecret)
    /\ verdict.token.claims.typ = "refresh"
    /\ verdict.token.claims.exp <= verdict.at
    /\ verdict.token.claims.sub \notin Users
    /\ verdict.outcome = Err("InvalidType")

\* The conditions of validate_token on a token, one by one, and the first of
\* them that holds, in the order MalformedToken, InvalidType, IatInTheFuture,
\* Expired, InvalidSubject, Revoked.
Holds(condition, token, token_type) ==
    CASE condition = "MalformedToken" -> token.mac # [claims |-> token.claims, key |-> JwtSecret]
      [] condition = "InvalidType" -> token.claims.typ # token_type
      [] condition = "IatInTheFuture" -> token.claims.iat > now
      [] condition = "Expired" -> token.claims.exp <= now
      [] condition = "InvalidSubject" -> token.claims.sub \notin Users
      [] condition = "Revoked" ->
            /\ token.claims.sub \in Users
            /\ token.claims.gen # users[token.claims.sub].token_generation

CheckOrder ==
    <<"MalformedToken", "InvalidType", "IatInTheFuture", "Expired", "InvalidSubject",
      "Revoked">>

Failing(token, token_type) ==
    {n \in DOMAIN CheckOrder : Holds(CheckOrder[n], token, token_type)}

FirstFailing(token, token_type) ==
    CheckOrder[CHOOSE n \in Failing(token, token_type) :
                  \A m \in Failing(token, token_type) : n <= m]

\* The step of a request that calls validate_token.
Validates == verdict' # verdict /\ verdict'.token_type # "none"

\* C22. Check order: a call of validate_token reports the first condition
\* that holds of the token, in the order MalformedToken, InvalidType,
\* IatInTheFuture (iat > now), Expired (exp <= now), InvalidSubject, Revoked,
\* and it returns the user's row only when none of them holds.
C22_CheckOrder ==
    [][Validates =>
          LET token == verdict'.token
              token_type == verdict'.token_type
          IN  IF Failing(token, token_type) = {}
                 THEN verdict'.outcome = Ok(users[token.claims.sub])
                 ELSE verdict'.outcome = Err(FirstFailing(token, token_type))]_vars

\* A token of the expected kind whose iat is in the future, which is expired
\* and which names no user has been refused as IatInTheFuture.
C22_Witness ==
    /\ verdict.token_type = verdict.token.claims.typ
    /\ verify_with_key(verdict.token, JwtSecret)
    /\ verdict.token.claims.iat > verdict.at
    /\ verdict.token.claims.exp <= verdict.at
    /\ verdict.token.claims.sub \notin Users
    /\ verdict.outcome = Err("IatInTheFuture")

\* The token errors of the error taxonomy.
TokenErrors ==
    {"NoToken", "MalformedToken", "InvalidType", "IatInTheFuture", "Expired",
     "InvalidSubject", "Revoked"}

\* The step of a request that runs the guard of User.
Guards == verdict' # verdict /\ verdict'.guard # NoGuard

\* The header value matches ^Bearer\s+(.+)$.
Matches(header) ==
    /\ header.scheme = "Bearer"
    /\ \/ header.spaces >= 1 /\ header.credentials # NoToken
       \/ header.spaces >= 2

\* C23. Identity Gate: the guard of User fails with NoToken when the
\* Authorization header value does not match ^Bearer\s+(.+)$; otherwise it
\* reports what validate_token returns for the captured token with the kind
\* access expected; so it reports a user's row or one of the seven token
\* errors, and nothing else.
C23_IdentityGate ==
    [][Guards =>
          LET header == verdict'.header
              guard == verdict'.guard
              validated == validate_token(verdict'.token, "access")
          IN  /\ ~Matches(header) => ~guard.success /\ guard.error = "NoToken"
              /\ Matches(header) =>
                    /\ verdict'.token_type = "access"
                    /\ verdict'.token = IF header.credentials # NoToken
                                            THEN header.credentials ELSE Whitespace
                    /\ validated.error = "None" =>
                          guard.success /\ guard.user = validated.user
                    /\ validated.error # "None" =>
                          ~guard.success /\ guard.error = validated.error
              /\ guard.success \/ guard.error \in TokenErrors]_vars

\* C24. Every token error the guard of User fails with is answered with
\* status fail, 401 Unauthorized and the phrase of its kind, and the phrases
\* of the seven kinds are pairwise distinct.
C24_TokenErrorPhrases ==
    /\ (verdict.guard # NoGuard /\ ~verdict.guard.success
            /\ verdict.guard.error \in TokenErrors) =>
          /\ verdict.response = token_error_to_response(verdict.guard.error)
          /\ verdict.response.status = "fail"
          /\ verdict.response.http_status = Unauthorized
    /\ \A e1, e2 \in TokenErrors :
          e1 # e2 => token_error_to_response(e1).message # token_error_to_response(e2).message

\* ttl(kind): the number the variable of the kind is set to, and the default
\* of the kind when the variable is not set or is set to anything else.
Ttl(token_type) ==
    LET name == IF token_type = "access" THEN "JWT_ACCESS_TOKEN_EXPIRY_TIME"
                                         ELSE "JWT_REFRESH_TOKEN_EXPIRY_TIME"
        fallback == IF token_type = "access" THEN 3600 ELSE 43800
        var == limits.env[name]
    IN  IF var = <<"2">> THEN 2 ELSE IF var = <<"3">> THEN 3 ELSE fallback

\* C31. Issue: every token a login or a refresh hands out for a user and a
\* kind is signed with the secret and has iat = now, exp = now + ttl(kind),
\* sub = the user's id, gen = the user's token_generation at that moment and
\* typ = the kind; ttl is taken from the environment, 3600 (access) and 43800
\* (refresh) when the variable is not set or does not parse.
C31_IssueClaims ==
    [][\A i \in tokens' \ tokens :
          /\ verify_with_key(i.token, JwtSecret)
          /\ i.token.claims = [iat |-> now,
                               exp |-> now + Ttl(i.token_type),
                               sub |-> i.user,
                               gen |-> users[i.user].token_generation,
                               typ |-> i.token_type]]_vars

\* With the access variable set to a string that does not parse and the
\* refresh variable not set, a user whose token_generation is 1 was handed,
\* at tick 1, an access token that expires at 3601 and a refresh token that
\* expires at 43801.
C31_Witness ==
    /\ limits.env.JWT_ACCESS_TOKEN_EXPIRY_TIME = <<"x">>
    /\ limits.env.JWT_REFRESH_TOKEN_EXPIRY_TIME = <<>>
    /\ \E i, j \in tokens :
          /\ i.user = j.user
          /\ i.token_type = "access" /\ j.token_type = "refresh"
          /\ i.generation = 1 /\ j.generation = 1
          /\ i.token.claims.iat = 1 /\ i.token.claims.exp = 3601
          /\ j.token.claims.iat = 1 /\ j.token.claims.exp = 43801
          /\ i.token.claims.gen = 1 /\ i.token.claims.sub = i.user

\* The step in which a call of increment_token_generation on the User value
\* h returns Ok.
IncrementReturnsOk(h) ==
    /\ handles[h] # NoUser
    /\ handles'[h] = increment_token_generation(handles[h])
    /\ faults' = faults

\* C32. The stored token_generation of a user starts at 0 and never
\* decreases, and every call of increment_token_generation that returns Ok,
\* a call on a User value loaded before another increment was stored
\* included, leaves the stored value greater than it was before the call.
C32_GenerationMonotonic ==
    [][/\ \A u \in Users : users'[u].token_generation >= users[u].token_generation
       /\ \A h \in Handles : IncrementReturnsOk(h) =>
             users'[handles[h].id].token_generation
                > users[handles[h].id].token_generation]_vars

\* C33. No request panics: with the server started (rocket() has returned),
\* no login, refresh or guarded request ends in a panic, and no handler of
\* the sentence routes does; a missing signing secret would have stopped the
\* start.
C33_NoRequestPanics ==
    /\ verdict.response.status # "panic"
    /\ \A p \in Procs : result[p] # "Panic"

\* The step of a refresh that hands out a new pair of tokens.
Refreshes ==
    /\ verdict' # verdict
    /\ verdict'.token_type = "refresh"
    /\ verdict'.guard = NoGuard
    /\ verdict'.outcome.error = "None"

\* C40. A refresh does not change any user's token_generation: the refresh
\* token it was given still validates after it, and so does every token
\* handed out before it that validated before it.
C40_RefreshKeepsGeneration ==
    [][Refreshes =>
          /\ users' = users
          /\ tokens \subseteq tokens'
          /\ \A i \in tokens :
                /\ validate_token(i.token, i.token_type)' = validate_token(i.token, i.token_type)
                /\ (i.token = verdict'.token /\ i.token_type = "refresh") =>
                      validate_token(i.token, "refresh")' = verdict'.outcome]_vars

\* A refresh token has been used for a refresh, which handed out a later
\* pair of tokens, and it still validates, as does the access token of its
\* own pair.
C40_Witness ==
    /\ verdict.token_type = "refresh"
    /\ verdict.outcome.error = "None"
    /\ now = verdict.at
    /\ \E i, j \in tokens :
          /\ i.token = verdict.token
          /\ j.token.claims.iat > i.token.claims.iat
          /\ j.user = i.user
          /\ validate_token(i.token, "refresh") = Ok(users[i.user])
          /\ \E a \in tokens :
                /\ a.token_type = "access"
                /\ a.user = i.user
                /\ a.token.claims.iat = i.token.claims.iat
                /\ validate_token(a.token, "access") = Ok(users[a.user])

\* The pair is in the frequency list.
Listed(dictionary_form, reading) == <<dictionary_form, reading>> \in Range(FrequencyListJson)

\* C27. Frequency list lookup: the dictionary frequency GET /sentences
\* returns for a word that is in the frequency list is the word's zero-based
\* index plus one, for a word that is not in the list it is the size of the
\* list plus one, and that is worse than the rank of every word in the list.
C27_CatalogRank ==
    \A p \in Procs :
       (pc[p] = "done" /\ req[p].op = "get" /\ result[p] = "Ok") =>
          \A n \in DOMAIN local[p].entries :
             LET entry == local[p].entries[n] IN
             /\ entry.dictionary_frequency = CorpusRank(entry.dictionary_form, entry.reading)
             /\ ~Listed(entry.dictionary_form, entry.reading) =>
                   \A i \in DOMAIN FrequencyListJson : entry.dictionary_frequency > i

\* C34. Every word the admit entry point has stored has a dictionary form
\* and a reading that are not empty, and every sentence it has stored has a
\* text that is not empty, for every request that passes the length >= 1
\* validation, a request whose fields are only whitespace included.
C34_StoredNonEmpty ==
    /\ \A w \in WordRows : w.dictionary_form # "" /\ w.reading # ""
    /\ \A s \in sentences : s.sentence # ""

\* C36. An admit that is answered PendingLimitReached leaves the store as it
\* was: no word is created, no frequency is incremented, no is_mined is
\* cleared and no sentence is inserted.
C36_RejectedAdmitFrame ==
    [][\A p \in Procs :
          (AdmitReturns(p) /\ result'[p] = "PendingLimitReached") =>
             /\ Len(words') = Len(words)
             /\ \A i \in DOMAIN words :
                   /\ words'[i].frequency = words[i].frequency
                   /\ words'[i].is_mined = words[i].is_mined
                   /\ words'[i] = words[i]
             /\ sentences' = sentences
             /\ sentence_seq' = sentence_seq
             /\ mining_batches' = mining_batches]_vars

\* An admit for a word that is stored with is_mined = true and frequency 1
\* has been answered PendingLimitReached, and the word is as it was.
C36_Witness ==
    \E p \in Procs :
       /\ pc[p] = "done"
       /\ req[p].op = "new"
       /\ result[p] = "PendingLimitReached"
       /\ PendingCount(req[p].user) = limits.max_pending
       /\ \E w \in WordsOf(words, RequestKey(p)) : w.is_mined /\ w.frequency = 1
       /\ upserts[RequestKey(p)] = 1

\* The step in which slot p's admit inserts its sentence and returns Ok.
AdmitSucceeds(p) == pc[p] = "sentence_new" /\ AdmitReturns(p) /\ result'[p] = "Ok"

\* The sentence an admit has created, with the text it is to have, and the
\* view the admit returns: one new row, pending, in no batch, of the user and
\* of the word the upsert returned; the view shows the rows as stored.
AdmitCreates(p, text) ==
    \E created \in sentences' :
       /\ sentences' = sentences \cup {created}
       /\ created \notin sentences
       /\ created.is_pending
       /\ created.mining_batch_id = None
       /\ created.user_id = req[p].user
       /\ created.word_id = local[p].word_entry.id
       /\ created.sentence = text
       /\ local[p].word_entry \in WordsOf(words', RequestKey(p))
       /\ \E view \in Range(local'[p].entries) :
             /\ Len(local'[p].entries) = 1
             /\ view.sentence_id = created.id
             /\ view.sentence = created.sentence
             /\ view.dictionary_form = words'[created.word_id].dictionary_form
             /\ view.reading = words'[created.word_id].reading
             /\ view.mining_frequency = words'[created.word_id].frequency

----------------------------------------------------------------------------
(* Properties of the analyzer *)

\* Slot p's analyze has returned its morphemes.
Analyzed(p) == pc[p] = "done" /\ req[p].op = "analyze" /\ result[p] = "Ok"

\* The nodes of the request's sentence without the BOS and EOS nodes.
TokenNodes(p) == SelectSeq(limits.tagger[req[p].sentence], IsToken)

\* The field of a feature vector at a zero-based index counted from its length.
Slot(node, back) == node.feature[Len(node.feature) - back + 1]

\* The reading slot of the first node that is not BOS or EOS of the string
\* tokenized alone; "*" when there is no such node or it has no such slot.
RetokenizedReading(string) ==
    LET nodes == SelectSeq(limits.tagger[string], IsToken)
    IN  IF nodes = <<>> \/ Len(nodes[1].feature) < 2 THEN "*" ELSE Slot(nodes[1], 2)

\* C28. Fallback substitution: the dictionary form of a morpheme is the
\* feature slot len-3 of its node, or the surface when that slot is "*"; its
\* reading is the feature slot len-2, or, when that slot is "*", the reading
\* slot of the first node of the dictionary form tokenized alone, or the
\* dictionary form when that is missing too.
C28_FallbackSubstitution ==
    \A p \in Procs : Analyzed(p) =>
       \A n \in DOMAIN local[p].morphemes :
          LET node == TokenNodes(p)[n]
              morpheme == local[p].morphemes[n]
              dictionary_form == IF Slot(node, 3) = "*" THEN node.surface ELSE Slot(node, 3)
          IN  /\ morpheme.dictionary_form = dictionary_form
              /\ morpheme.reading =
                    IF Slot(node, 2) # "*" THEN Slot(node, 2)
                    ELSE IF RetokenizedReading(dictionary_form) # "*"
                       THEN RetokenizedReading(dictionary_form)
                    ELSE dictionary_form

\* C29. Morphology completeness: analyze returns one morpheme for each node
\* that is not BOS or EOS, in the order of the nodes, and each has a surface,
\* a dictionary form and a reading that are not empty and not "*".
C29_MorphologyCompleteness ==
    \A p \in Procs : Analyzed(p) =>
       /\ Len(local[p].morphemes) = Len(TokenNodes(p))
       /\ \A n \in DOMAIN local[p].morphemes :
             LET morpheme == local[p].morphemes[n] IN
             /\ morpheme.morpheme = TokenNodes(p)[n].surface
             /\ morpheme.morpheme \notin {"", "*"}
             /\ morpheme.dictionary_form \notin {"", "*"}
             /\ morpheme.reading \notin {"", "*"}

----------------------------------------------------------------------------
(* Properties of the batch queries *)

\* The step in which slot p's get_batch runs its lookup.
GetBatchLooksUp(p) == pc[p] = "idle" /\ pc'[p] # "idle" /\ req'[p].op = "get_batch"

\* The step in which slot p's get_batch returns Ok.
GetBatchSucceeds(p) ==
    pc[p] # "done" /\ pc'[p] = "done" /\ req'[p].op = "get_batch" /\ result'[p] = "Ok"

BatchOwner(mining_batch_id) ==
    {mining_batches[n].user_id : n \in {m \in DOMAIN mining_batches :
                                          mining_batches[m].id = mining_batch_id}}

\* C25. get_batch goes on to return the batch only when a batch of that id
\* exists and the user owns it; for a batch of another user it is answered
\* Batch Not Found with nothing else in the answer, exactly as for an id no
\* batch has.
C25_GetBatchNoLeak ==
    [][\A p \in Procs :
          /\ GetBatchLooksUp(p) =>
                IF req'[p].user \in BatchOwner(req'[p].mining_batch_id)
                   THEN /\ pc'[p] = "get_sentences"
                        /\ local'[p].mining_batch = req'[p].mining_batch_id
                   ELSE /\ pc'[p] = "done"
                        /\ result'[p] = "BatchNotFound"
                        /\ local'[p] = NoLocal
          /\ GetBatchSucceeds(p) =>
                /\ local'[p].mining_batch = req'[p].mining_batch_id
                /\ BatchOwner(req'[p].mining_batch_id) = {req'[p].user}]_vars

\* A user asked for a batch another user owns and was answered Batch Not
\* Found.
C25_Witness ==
    \E p \in Procs :
       /\ pc[p] = "done"
       /\ req[p].op = "get_batch"
       /\ result[p] = "BatchNotFound"
       /\ BatchOwner(req[p].mining_batch_id) # {}
       /\ req[p].user \notin BatchOwner(req[p].mining_batch_id)

\* C35. get_batch returns one entry for each sentence whose batch is the
\* batch asked for and no other entry: none of a pending sentence, none of a
\* sentence of another batch; each entry has the sentence's id and text and
\* the dictionary form, the reading and the frequency, as stored now, of the
\* sentence's own word.
C35_BatchSentences ==
    [][\A p \in Procs : GetBatchSucceeds(p) =>
          LET entries == local'[p].entries
              members == {s \in sentences : s.mining_batch_id = req[p].mining_batch_id}
          IN  /\ Len(entries) = Cardinality(members)
              /\ {entries[n].sentence_id : n \in DOMAIN entries} = {s.id : s \in members}
              /\ \A n \in DOMAIN entries :
                    \E s \in members :
                       /\ s.id = entries[n].sentence_id
                       /\ ~s.is_pending
                       /\ entries[n].sentence = s.sentence
                       /\ entries[n].dictionary_form = words[s.word_id].dictionary_form
                       /\ entries[n].reading = words[s.word_id].reading
                       /\ entries[n].mining_frequency = words[s.word_id].frequency]_vars

\* get_batch has returned the one sentence of the first batch while the
\* other sentence, of the same word, is in the second batch; the entry shows
\* the word's frequency 2.
C35_Witness ==
    \E p \in Procs :
       /\ pc[p] = "done"
       /\ req[p].op = "get_batch"
       /\ result[p] = "Ok"
       /\ req[p].mining_batch_id = 1
       /\ Len(local[p].entries) = 1
       /\ local[p].entries[1].mining_frequency = 2
       /\ \E s, t \in sentences :
             /\ s.id = local[p].entries[1].sentence_id
             /\ s.mining_batch_id = 1
             /\ t.mining_batch_id = 2
             /\ t.word_id = s.word_id

\* The step in which slot p's get_all_batches returns Ok.
GetAllBatchesSucceeds(p) ==
    pc[p] = "idle" /\ pc'[p] = "done" /\ req'[p].op = "get_all_batches"
        /\ result'[p] = "Ok"

\* The place of a batch in the order of creation.
Created(mining_batch) == CHOOSE n \in DOMAIN mining_batches : mining_batches[n] = mining_batch

\* C26. get_all_batches returns each batch the user owns once and no other
\* batch, a batch created later before every batch created earlier; the
\* list is empty when the user owns no batch.
C26_ListBatches ==
    [][\A p \in Procs : GetAllBatchesSucceeds(p) =>
          LET batches == local'[p].batches IN
          /\ Range(batches) = {b \in Range(mining_batches) : b.user_id = req'[p].user}
          /\ Len(batches) = Cardinality(Range(batches))
          /\ \A i, j \in DOMAIN batches :
                i < j => Created(batches[i]) > Created(batches[j])]_vars

\* A user with two batches was answered with both, the second created first.
C26_Witness ==
    \E p \in Procs :
       /\ pc[p] = "done"
       /\ req[p].op = "get_all_batches"
       /\ result[p] = "Ok"
       /\ Len(local[p].batches) = 2
       /\ local[p].batches[1].id = 2
       /\ local[p].batches[2].id = 1

----------------------------------------------------------------------------
(* Specifications *)

InitWith(scenario) ==
    /\ words = <<>>
    /\ sentences = {}
    /\ sentence_seq = 0
    /\ mining_batches = <<>>
    /\ pc = [p \in Procs |-> "idle"]
    /\ req = [p \in Procs |-> NoRequest]
    /\ local = [p \in Procs |-> NoLocal]
    /\ result = [p \in Procs |-> "none"]
    /\ faults = 0
    /\ committed = {}
    /\ upserts = [k \in WordKeys |-> 0]
    /\ limits = scenario
    /\ users = [u \in Users |-> [id |-> u, token_generation |-> 0]]
    /\ now = 0
    /\ tokens = {}
    /\ verdict = NoVerdict
    /\ handles = [h \in Handles |-> NoUser]

\* Requests in flight at once: the handlers that write the store.
Init == InitWith(ConcurrentLimits)

Next ==
    \E p \in Procs :
        \/ New(p)
        \/ NewCountError(p)
        \/ WordFind(p)
        \/ WordFindError(p)
        \/ WordSave(p)
        \/ WordInsert(p)
        \/ SentenceNew(p)
        \/ Delete(p)
        \/ SentenceDelete(p)
        \/ CommitFetch(p)
        \/ CommitFetchError(p)
        \/ MiningBatchNew(p)
        \/ CommitUpdateSentences(p)
        \/ CommitUpdateWords(p)
        \/ StoreError(p)
        \/ Return(p)

Spec == Init /\ [][Next]_vars

\* Requests one after another: a request starts when the one before it has
\* been answered.
InitSeq == InitWith(SequentialLimits)

NextSeq ==
    \E p \in Procs :
        \/ New(p)
        \/ NewCountError(p)
        \/ WordFind(p)
        \/ WordFindError(p)
        \/ WordSave(p)
        \/ WordInsert(p)
        \/ SentenceNew(p)
        \/ Get(p)
        \/ GetError(p)
        \/ Delete(p)
        \/ SentenceDelete(p)
        \/ CommitFetch(p)
        \/ CommitFetchError(p)
        \/ MiningBatchNew(p)
        \/ CommitUpdateSentences(p)
        \/ CommitUpdateWords(p)
        \/ StoreError(p)
        \/ Return(p)

SpecSeq == InitSeq /\ [][NextSeq]_vars

\* Admits and deletes of the pending queue, one after another or two at
\* once, for each value of the cap; no store statement fails.
InitAdmit == \E scenario \in AdmitLimits : InitWith(scenario)

NextAdmit ==
    \E p \in Procs :
        \/ New(p)
        \/ WordFind(p)
        \/ WordSave(p)
        \/ WordInsert(p)
        \/ SentenceNew(p)
        \/ Delete(p)
        \/ SentenceDelete(p)
        \/ Return(p)

SpecAdmit == InitAdmit /\ [][NextAdmit]_vars

\* Admits, commits and the two batch queries, one request after another.
BatchLimits ==
    [slots |-> {1}, max_pending |-> MaxPending, sentences |-> MaxSentences,
     readings |-> {"ne"}, forged |-> FALSE, header |-> NoHeader,
     tagger |-> NoTagger, texts |-> {"t", " t "}, env |-> TestEnv]

InitBatch == InitWith(BatchLimits)

NextBatch ==
    \E p \in Procs :
        \/ New(p)
        \/ WordFind(p)
        \/ WordSave(p)
        \/ WordInsert(p)
        \/ SentenceNew(p)
        \/ CommitFetch(p)
        \/ MiningBatchNew(p)
        \/ CommitUpdateSentences(p)
        \/ CommitUpdateWords(p)
        \/ StoreError(p)
        \/ GetBatch(p)
        \/ GetBatchSentences(p)
        \/ GetBatchSentencesError(p)
        \/ GetAllBatches(p)
        \/ GetAllBatchesError(p)
        \/ Return(p)

SpecBatch == InitBatch /\ [][NextBatch]_vars

\* Admits and deletes, one after another, of requests whose text is a word,
\* a space or empty.
ValidateLimits == [BatchLimits EXCEPT !.texts = {"t", " ", ""}]

InitValidate == InitWith(ValidateLimits)

SpecValidate == InitValidate /\ [][NextAdmit]_vars

\* The analyzer with each tokenizer.
AnalyzeLimits ==
    {[BatchLimits EXCEPT !.tagger = tagger] : tagger \in Taggers}

InitAnalyze == \E scenario \in AnalyzeLimits : InitWith(scenario)

NextAnalyze == \E p \in Procs : Analyze(p) \/ Return(p)

SpecAnalyze == InitAnalyze /\ [][NextAnalyze]_vars

\* The token service: logins, refreshes, guarded requests, increments of the
\* token generation and the clock.
NextToken ==
    \/ Login
    \/ Refresh
    \/ FromRequest
    \/ IncrementTokenGeneration
    \/ Tick
    \/ ClockSetBack

SpecToken == Init /\ [][NextToken]_vars

\* The token service and the guard with whatever a client may send.
InitGate == \E scenario \in GateLimits : InitWith(scenario)

NextGate ==
    \/ Refresh
    \/ FromRequest
    \/ IncrementTokenGeneration
    \/ Tick
    \/ ClockSetBack

SpecGate == InitGate /\ [][NextGate]_vars

\* The handing out of tokens under each setting of the expiry times.
InitIssue == \E scenario \in IssueLimits : InitWith(scenario)

NextIssue ==
    \/ Login
    \/ Refresh
    \/ IncrementTokenGeneration
    \/ Tick

SpecIssue == InitIssue /\ [][NextIssue]_vars

\* The token service of a server started with or without JWT_SECRET.
InitStartup == \E scenario \in StartupLimits : InitWith(scenario)

SpecStartup == InitStartup /\ [][NextToken]_vars

\* Increments of the token generation through the User values callers hold,
\* with tokens handed out and validated in between.
NextGeneration ==
    \/ \E h \in Handles :
          \/ FindById(h)
          \/ IncrementTokenGenerationOf(h)
          \/ IncrementTokenGenerationError(h)
          \/ DropUser(h)
    \/ Login
    \/ Refresh

SpecGeneration == Init /\ [][NextGeneration]_vars

====
